---- MODULE Spec2Model ----
(***************************************************************************)
(* A model of the Roth TouchLine protocol client:                          *)
(*   - RothHeatingAPI (custom_components/roth_heating/api.py): the HTTP    *)
(*     exchanges, the read operations, the inline positional decode of     *)
(*     get_device_data, get_all_devices_data and the write operations;     *)
(*   - RothRawReader (base_implementation/api_reference.py): the cursor    *)
(*     walk of parse_device_response and get_number_of_devices.            *)
(*                                                                         *)
(* Texts are sequences of tokens.  A token is one character, except that a *)
(* wire name of the static schema ("SollTempMaxVal") and the sentinel      *)
(* "NA" are one token each: none of them holds a "." or a "G", the only    *)
(* characters the code splits on.  The empty sequence stands for both the  *)
(* empty string and None (an element without text): both are falsy.        *)
(*                                                                         *)
(* Python floats are IEEE-754 doubles.  A double is modelled exactly as    *)
(* [m, k] with value m * 2^(-k), 2^52 <= m < 2^53 (or zero), m held in     *)
(* three limbs of 20 bits since the checker's integers have 32 bits.       *)
(***************************************************************************)
EXTENDS Integers, Sequences, FiniteSets, TLC

\* ------------------------------------------------------------------ bounds
\* Number of leading schema entries a device query covers.
SchemaLen == 3
\* Largest device count the controller reports.
MaxDevices == 3
\* Largest temperature written, in hundredths of a degree.
MaxHundredths == 30
\* Largest device count the controller reports in a poll cycle.
MaxPollDevices == 4
\* Seconds an exchange takes when the controller answers.
AnswerTime == 1

\* ------------------------------------------------------- program constants
\* The temperature scale factor (hundredths of a degree).
TempScale == 100
\* Seconds after which an exchange of the client times out.
ClientTimeout == 10
\* Seconds after which the coordinator's poll cycle is cancelled.
PollTimeout == 30
\* The only HTTP status a read or a write accepts.
HttpOk == 200

\* ------------------------------------------------------------------ texts
NoText == << >>
NA == <<"NA">>

Digits == {"0", "1", "2", "3", "4", "5", "6", "7", "8", "9"}

DigitVal(c) ==
  CASE c = "0" -> 0 [] c = "1" -> 1 [] c = "2" -> 2 [] c = "3" -> 3
    [] c = "4" -> 4 [] c = "5" -> 5 [] c = "6" -> 6 [] c = "7" -> 7
    [] c = "8" -> 8 [] c = "9" -> 9

\* int(text) and float(text) succeed on a non-empty run of digits and raise
\* ValueError on every other text of the model's alphabet.
IsIntText(t) == Len(t) > 0 /\ \A i \in 1..Len(t) : t[i] \in Digits

RECURSIVE IntOfText(_)
IntOfText(t) ==
  IF Len(t) = 0 THEN 0
  ELSE 10 * IntOfText(SubSeq(t, 1, Len(t) - 1)) + DigitVal(t[Len(t)])

\* str(n) for a one-digit device index.
DigitText(n) ==
  CASE n = 0 -> "0" [] n = 1 -> "1" [] n = 2 -> "2" [] n = 3 -> "3"
    [] n = 4 -> "4" [] n = 5 -> "5" [] n = 6 -> "6" [] n = 7 -> "7"
    [] n = 8 -> "8" [] n = 9 -> "9"

\* text.split(sep): the pieces of text between the occurrences of sep.
RECURSIVE Split(_, _)
Split(t, sep) ==
  IF \A i \in 1..Len(t) : t[i] # sep THEN <<t>>
  ELSE LET i == CHOOSE j \in 1..Len(t) :
                   t[j] = sep /\ \A l \in 1..(j - 1) : t[l] # sep
       IN  <<SubSeq(t, 1, i - 1)>> \o Split(SubSeq(t, i + 1, Len(t)), sep)

\* --------------------------------------------- IEEE-754 double arithmetic
Base == 2^20

BigZero == <<0, 0, 0>>

\* 2^k as three limbs, 0 <= k <= 59.
Pow2Big(k) ==
  <<IF k >= 40 THEN 2^(k - 40) ELSE 0,
    IF k >= 20 /\ k < 40 THEN 2^(k - 20) ELSE 0,
    IF k < 20 THEN 2^k ELSE 0>>

\* a * c for a small c (every limb product stays below 2^31).
BigMulSmall(a, c) ==
  LET t0 == a[3] * c
      t1 == a[2] * c + (t0 \div Base)
      t2 == a[1] * c + (t1 \div Base)
  IN  <<t2, t1 % Base, t0 % Base>>

\* Quotient and remainder of a by a small d.
BigDivSmall(a, d) ==
  LET q2 == a[1] \div d
      r2 == a[1] % d
      t1 == r2 * Base + a[2]
      q1 == t1 \div d
      r1 == t1 % d
      t0 == r1 * Base + a[3]
  IN  [q |-> <<q2, q1, t0 \div d>>, r |-> t0 % d]

RECURSIVE BigShr(_, _)
BigShr(a, n) ==
  IF n = 0 THEN a
  ELSE IF n >= 10 THEN BigShr(BigDivSmall(a, 2^10).q, n - 10)
  ELSE BigDivSmall(a, 2^n).q

BigInc(a) ==
  IF a[3] + 1 < Base THEN <<a[1], a[2], a[3] + 1>>
  ELSE IF a[2] + 1 < Base THEN <<a[1], a[2] + 1, 0>>
  ELSE <<a[1] + 1, 0, 0>>

BigGE(a, b) ==
  \/ a[1] > b[1]
  \/ a[1] = b[1] /\ a[2] > b[2]
  \/ a[1] = b[1] /\ a[2] = b[2] /\ a[3] >= b[3]

\* Round to nearest, ties to even: q is the truncated quotient, twiceRem
\* compares twice the remainder with the divisor (-1, 0, 1).
RoundHalfEven(q, twiceRem) ==
  IF twiceRem > 0 \/ (twiceRem = 0 /\ q[3] % 2 = 1) THEN BigInc(q) ELSE q

Sign(x) == IF x > 0 THEN 1 ELSE IF x < 0 THEN -1 ELSE 0

\* A mantissa that rounding carried up to 2^53 is renormalised.
Normalise(m, k) ==
  IF BigGE(m, Pow2Big(53)) THEN [m |-> Pow2Big(52), k |-> k - 1]
  ELSE [m |-> m, k |-> k]

DblZero == [m |-> BigZero, k |-> 0]

\* floor(log2(n)) for n >= 1.
RECURSIVE Log2Floor(_)
Log2Floor(n) == IF n < 2 THEN 0 ELSE 1 + Log2Floor(n \div 2)

\* The least j with n * 2^j >= d, for 1 <= n < d.
RECURSIVE ShiftsToReach(_, _)
ShiftsToReach(n, d) == IF n >= d THEN 0 ELSE 1 + ShiftsToReach(2 * n, d)

\* float(n) / 100.0 for an integer 0 <= n < 4096: the double nearest n/100.
FloatDiv100(n) ==
  IF n = 0 THEN DblZero
  ELSE LET e  == IF n >= TempScale THEN Log2Floor(n \div TempScale)
                 ELSE 0 - ShiftsToReach(n, TempScale)
           k  == 52 - e
           qr == BigDivSmall(BigMulSmall(Pow2Big(k), n), TempScale)
       IN  Normalise(RoundHalfEven(qr.q, Sign(2 * qr.r - TempScale)), k)

\* x * 100 for a double x: the exact product rounded to 53 bits.
FloatMul100(x) ==
  IF x.m = BigZero THEN DblZero
  ELSE LET p == BigMulSmall(x.m, TempScale)
           s == IF BigGE(p, Pow2Big(59)) THEN 7 ELSE 6
           r == p[3] % (2^s)
       IN  Normalise(RoundHalfEven(BigShr(p, s), Sign(2 * r - 2^s)), x.k - s)

\* int(x) for a double 0 <= x < 2^31: truncation toward zero.
IntTrunc(x) ==
  IF x.m = BigZero THEN 0
  ELSE LET q == BigShr(x.m, x.k) IN q[2] * Base + q[3]

\* ----------------------------------------------------------------- schema
\* self._xml_element_list: the ordered parameter schema (every type is "G").
XmlElementList ==
  << [name |-> "name",           desc |-> "Name"],
     [name |-> "SollTempMaxVal", desc |-> "Setpoint max"],
     [name |-> "SollTempMinVal", desc |-> "Setpoint min"],
     [name |-> "WeekProg",       desc |-> "Week program"],
     [name |-> "OPMode",         desc |-> "Operation mode"],
     [name |-> "SollTemp",       desc |-> "Setpoint"],
     [name |-> "RaumTemp",       desc |-> "Temperature"],
     [name |-> "kurzID",         desc |-> "Device ID"],
     [name |-> "ownerKurzID",    desc |-> "Controller ID"] >>

TemperatureDescs == {"Temperature", "Setpoint", "Setpoint max", "Setpoint min"}
IntegerDescs == {"Operation mode", "Week program", "Device ID", "Controller ID"}

\* The schema a device query covers: SchemaLen consecutive entries of the
\* list, starting at entry `start`.
SchemaFrom(start) == SubSeq(XmlElementList, start, start + SchemaLen - 1)

\* f"G{device_id}.{parameter['name']}"
WireName(device_id, parameter) ==
  <<"G", DigitText(device_id), ".", parameter.name>>

\* --------------------------------------------------------- Python values
EmptyDict == [x \in {} |-> NoText]

DictSet(d, key, val) ==
  [x \in (DOMAIN d) \cup {key} |-> IF x = key THEN val ELSE d[x]]

\* A Python scalar: its type and, by type, its integer, text or double.
PyVal(type, int, text, dbl) == [t |-> type, n |-> int, s |-> text, x |-> dbl]
PyNone == PyVal("none", 0, NoText, DblZero)
PyStr(text) == PyVal("str", 0, text, DblZero)
PyInt(n) == PyVal("int", n, NoText, DblZero)
PyFloat(x) == PyVal("float", 0, NoText, x)
PyBool(b) == PyVal("bool", IF b THEN 1 ELSE 0, NoText, DblZero)

\* --------------------------------------------------------- XML responses
\* A parsed response: whether <item_list> is there, and its <i> items, each
\* the ordered list of its child elements [tag, text].
Elem(tg, txt) == [tag |-> tg, text |-> txt]
Tree(items) == [item_list |-> TRUE, items |-> items]
NoItemList == [item_list |-> FALSE, items |-> << >>]

\* ---------------------------------- RothRawReader.parse_device_response
\* (mutant: the misaligned element is consumed as if it were a pair)
Rewind_NoRewind(list_iterator) == list_iterator

\* The rewind of a misaligned slot: list_iterator -= 1.
Rewind(list_iterator) == list_iterator - 1

\* (mutant: the cursor advances by one element)
Advance_ByOne(list_iterator) == list_iterator + 1

\* The advance after every slot: list_iterator += 2.
Advance(list_iterator) == list_iterator + 2

\* (mutant: the text is recorded as it is)
ValueOrNA_Raw(value) == value

\* str(value) if value else "NA"
ValueOrNA(value) == IF value # NoText THEN value ELSE NA

\* device_list[0].text.split(".")[0].split("G")[1], an IndexError (or the
\* AttributeError of a missing text) being swallowed by the bare except.
ExtractUniqueId(param, nameText) ==
  LET parts == Split(Split(nameText, ".")[1], "G")
  IN  IF Len(parts) >= 2 THEN DictSet(param, "Unique ID", parts[2])
      ELSE param

\* One iteration of the loop body over a parameter, the guard
\* list_iterator < len(device_list) having passed.
WalkStep(device_list, parameter, st) ==
  IF device_list[st.it + 1].tag # "n"
  THEN [it |-> Advance(Rewind(st.it)),
        param |-> DictSet(st.param, parameter.desc, NA)]
  ELSE IF st.it + 1 < Len(device_list)
  THEN LET value == device_list[st.it + 2].text
           p1 == DictSet(st.param, parameter.desc, ValueOrNA(value))
       IN  [it |-> Advance(st.it),
            param |-> IF st.it = 0 /\ value # NoText
                      THEN ExtractUniqueId(p1, device_list[st.it + 1].text)
                      ELSE p1]
  ELSE [it |-> Advance(st.it), param |-> st.param]

\* The walk guard: the loop breaks when the cursor is past the list.
WalkStops(device_list, st) == st.it >= Len(device_list)

RECURSIVE Walk(_, _, _, _)
Walk(device_list, sch, idx, st) ==
  IF idx > Len(sch) \/ WalkStops(device_list, st) THEN st
  ELSE Walk(device_list, sch, idx + 1, WalkStep(device_list, sch[idx], st))

RECURSIVE WalkItems(_, _, _)
WalkItems(items, sch, param) ==
  IF items = << >> THEN param
  ELSE WalkItems(Tail(items), sch,
                 Walk(Head(items), sch, 1, [it |-> 0, param |-> param]).param)

\* self._parameter after parse_device_response(response).  A response
\* without item_list raises AttributeError inside the try: it is logged and
\* the mapping stays as reset at the top.
ParseDeviceResponse(response, sch) ==
  IF ~response.item_list THEN EmptyDict
  ELSE WalkItems(response.items, sch, EmptyDict)

\* The walk starts on every item with list_iterator = 0.
WalkStart == [it |-> 0, param |-> EmptyDict]

\* The cursor positions at which the loop body ran, in order.
RECURSIVE WalkCursors(_, _, _, _)
WalkCursors(device_list, sch, idx, st) ==
  IF idx > Len(sch) \/ WalkStops(device_list, st) THEN << >>
  ELSE <<st.it>> \o WalkCursors(device_list, sch, idx + 1,
                                WalkStep(device_list, sch[idx], st))

\* The positions (0-based) of the elements one run of the loop body reads
\* with the cursor at list_iterator: device_list[list_iterator] for its tag
\* and, under a name node with an element after it,
\* device_list[list_iterator + 1] for its text.
WalkReads(device_list, list_iterator) ==
  {list_iterator}
    \cup (IF /\ list_iterator \in 0..(Len(device_list) - 1)
             /\ device_list[list_iterator + 1].tag = "n"
             /\ list_iterator + 1 < Len(device_list)
          THEN {list_iterator + 1} ELSE {})

\* --------------------------------------------------- the device query
\* The name elements of the item a device query posts, one per schema entry
\* in the order of the list: f"<n>G{device_id}.{parameter['name']}</n>".
DeviceRequest(device_id, sch) ==
  [k \in 1..Len(sch) |-> WireName(device_id, sch[k])]

\* --------------------------------------- RothRawReader's typed accessors
\* self._parameter.get(desc): the text, none standing for None.
ParamGet(param, desc) == IF desc \in DOMAIN param THEN param[desc] ELSE NoText

\* temp_str and temp_str != "NA"
Usable(text) == text # NoText /\ text # NA

\* (mutant: a reading of zero is taken for no reading)
TempAccessor_ZeroIsNone(param, desc) ==
  LET text == ParamGet(param, desc)
  IN  IF Usable(text) /\ IsIntText(text) /\ IntOfText(text) # 0
      THEN PyFloat(FloatDiv100(IntOfText(text)))
      ELSE PyNone

\* get_current_temperature and the other temperature accessors:
\* int(temp_str) / self._temp_scale, None on "NA", on no text and on the
\* ValueError of int().
TempAccessor(param, desc) ==
  LET text == ParamGet(param, desc)
  IN  IF Usable(text) /\ IsIntText(text)
      THEN PyFloat(FloatDiv100(IntOfText(text)))
      ELSE PyNone

\* (mutant: a code that is no known mode or program is dropped)
IntAccessor_KnownOnly(param, desc) ==
  LET text == ParamGet(param, desc)
  IN  IF Usable(text) /\ IsIntText(text) /\ IntOfText(text) <= 4
      THEN PyInt(IntOfText(text))
      ELSE PyNone

\* get_week_program, get_operation_mode, get_device_id, get_controller_id:
\* int(text), None on "NA", on no text and on the ValueError of int().
IntAccessor(param, desc) ==
  LET text == ParamGet(param, desc)
  IN  IF Usable(text) /\ IsIntText(text) THEN PyInt(IntOfText(text))
      ELSE PyNone

\* get_name: the raw text, None when the entry is unset.
GetName(param) ==
  IF "Name" \in DOMAIN param THEN PyStr(param["Name"]) ELSE PyNone

GetCurrentTemperature(param) == TempAccessor(param, "Temperature")
GetTargetTemperature(param) == TempAccessor(param, "Setpoint")
GetTargetTemperatureHigh(param) == TempAccessor(param, "Setpoint max")
GetTargetTemperatureLow(param) == TempAccessor(param, "Setpoint min")
GetWeekProgram(param) == IntAccessor(param, "Week program")
GetOperationMode(param) == IntAccessor(param, "Operation mode")
GetDeviceId(param) == IntAccessor(param, "Device ID")
GetControllerId(param) == IntAccessor(param, "Controller ID")

\* What the accessors of a reader return, by accessor.
Accessors(param) ==
  [name |-> GetName(param),
   current_temperature |-> GetCurrentTemperature(param),
   target_temperature |-> GetTargetTemperature(param),
   target_temperature_high |-> GetTargetTemperatureHigh(param),
   target_temperature_low |-> GetTargetTemperatureLow(param),
   week_program |-> GetWeekProgram(param),
   operation_mode |-> GetOperationMode(param),
   device_id |-> GetDeviceId(param),
   controller_id |-> GetControllerId(param)]

\* The accessor that exposes the schema entry `desc`.
AccessorOf(exposed, desc) ==
  CASE desc = "Name" -> exposed.name
    [] desc = "Temperature" -> exposed.current_temperature
    [] desc = "Setpoint" -> exposed.target_temperature
    [] desc = "Setpoint max" -> exposed.target_temperature_high
    [] desc = "Setpoint min" -> exposed.target_temperature_low
    [] desc = "Week program" -> exposed.week_program
    [] desc = "Operation mode" -> exposed.operation_mode
    [] desc = "Device ID" -> exposed.device_id
    [] desc = "Controller ID" -> exposed.controller_id

\* ------------------------- RothHeatingAPI.get_device_data, inline decode
\* The read-side scaling: float(value) / 100.0.
ReadScale(raw) == FloatDiv100(raw)

\* The coercion of one available value; float() and int() raise ValueError
\* on a text that is no number.
Coerce(desc, value) ==
  IF desc \in TemperatureDescs
  THEN IF IsIntText(value)
       THEN [ok |-> TRUE, v |-> PyFloat(ReadScale(IntOfText(value)))]
       ELSE [ok |-> FALSE, v |-> PyStr(NoText)]
  ELSE IF desc \in IntegerDescs
  THEN IF IsIntText(value)
       THEN [ok |-> TRUE, v |-> PyInt(IntOfText(value))]
       ELSE [ok |-> FALSE, v |-> PyStr(NoText)]
  ELSE [ok |-> TRUE, v |-> PyStr(value)]

\* (mutant: the value is taken from the pair after)
ValueIndex_NextPair(i) == i * 2 + 3

\* The position of the value of the i-th parameter (0-based): i * 2 + 1.
ValueIndex(i) == i * 2 + 1

\* (mutant: the controller's "NA" is taken for a value)
Available_NotEmpty(value) == value # NoText

\* value and value != "NA"
Available(value) == value # NoText /\ value # NA

RECURSIVE InlineLoop(_, _, _, _)
InlineLoop(device_list, sch, i, data) ==
  IF i >= Len(sch) THEN [raised |-> FALSE, data |-> data]
  ELSE IF ValueIndex(i) < Len(device_list)
          /\ Available(device_list[ValueIndex(i) + 1].text)
  THEN LET c == Coerce(sch[i + 1].desc, device_list[ValueIndex(i) + 1].text)
       IN  IF c.ok
           THEN InlineLoop(device_list, sch, i + 1,
                           DictSet(data, sch[i + 1].desc, c.v))
           ELSE [raised |-> TRUE, data |-> EmptyDict]
  ELSE InlineLoop(device_list, sch, i + 1, data)

\* The decode of a parsed response inside get_device_data: the data mapping,
\* or raised when a coercion raises ValueError.
DecodeDeviceData(response, sch) ==
  IF response.item_list /\ response.items # << >>
  THEN InlineLoop(Head(response.items), sch, 0, EmptyDict)
  ELSE [raised |-> FALSE, data |-> EmptyDict]

\* ------------------------------------------------------- HTTP exchanges
\* What one POST meets: a transport failure (timeout, connection error) or
\* an HTTP response with a status and a body, the body parsable XML or not.
Unparsable == [xml |-> FALSE, tree |-> NoItemList]
Xml(tree) == [xml |-> TRUE, tree |-> tree]

Failure(what) == [kind |-> what, status |-> 0, body |-> Unparsable]
HttpResp(st, b) == [kind |-> "http", status |-> st, body |-> b]

TransportFailures == {Failure("TimeoutException"), Failure("ConnectError")}
Statuses == {HttpOk, 204, 404, 500}

\* The responses a query can meet, `trees` being the parsed bodies of
\* interest and `good` one well-formed body (also sent with error statuses).
Responses(trees, good) ==
  TransportFailures
    \cup {HttpResp(HttpOk, Unparsable)}
    \cup {HttpResp(HttpOk, Xml(tr)) : tr \in trees}
    \cup {HttpResp(st, b) : st \in Statuses \ {HttpOk}, b \in {Unparsable, Xml(good)}}

\* ------------------------------------------------------------- results
\* How a call ends: a returned value (a scalar, a device's data mapping or
\* the mapping of all devices) or a raised exception.
Result(how, e, val, dat, devs) ==
  [kind |-> how, exc |-> e, value |-> val, data |-> dat, devices |-> devs]

NoResult == Result("none", "", PyNone, EmptyDict, EmptyDict)
Return(value) == Result("return", "", value, EmptyDict, EmptyDict)
ReturnData(data) == Result("return", "", PyNone, data, EmptyDict)
ReturnDevices(devices) == Result("return", "", PyNone, EmptyDict, devices)
Raise(exc) == Result("raise", exc, PyNone, EmptyDict, EmptyDict)

\* ------------------------------------------- the client of one exchange
\* (mutant: the client is closed only when the try block returns)
AcloseRuns_OnReturnOnly(raised) == ~raised

\* finally: await client.aclose() runs however the try block ended, `raised`
\* telling whether it ended with an exception.
AcloseRuns(raised) == TRUE

\* The clients an exchange leaves open: httpx.AsyncClient(...) creates one
\* and the finally clause closes it.
LeftOpen(raised) == IF AcloseRuns(raised) THEN 0 ELSE 1

\* The name elements of the item of the count and of the status query.
CountRequest == << <<"totalNumberOfDevices">> >>
StatusRequest == << <<"R0.SystemStatus">> >>

\* ------------------------------ RothHeatingAPI.request_and_receive_xml
\* (mutant: only server errors are rejected)
StatusRejected_Only5xx(status) == status >= 500

\* response.status_code != 200
StatusRejected(status) == status # HttpOk

\* The parsed tree, or the exception raised; `parsed` tells whether
\* ET.fromstring was applied to the body.
RequestAndReceiveXml(resp) ==
  IF resp.kind # "http"
  THEN [raised |-> TRUE, exc |-> resp.kind, tree |-> NoItemList, parsed |-> FALSE]
  ELSE IF StatusRejected(resp.status)
  THEN [raised |-> TRUE, exc |-> "Exception", tree |-> NoItemList, parsed |-> FALSE]
  ELSE IF ~resp.body.xml
  THEN [raised |-> TRUE, exc |-> "ParseError", tree |-> NoItemList, parsed |-> TRUE]
  ELSE [raised |-> FALSE, exc |-> "", tree |-> resp.body.tree, parsed |-> TRUE]

\* item.find(tag): the position of the first child with that tag, 0 if none.
FindFirst(item, tag) ==
  IF \A i \in 1..Len(item) : item[i].tag # tag THEN 0
  ELSE CHOOSE i \in 1..Len(item) :
         item[i].tag = tag /\ \A j \in 1..(i - 1) : item[j].tag # tag

\* response.find('item_list').find('i').find('v').text: the text, or the
\* AttributeError of a find() on None.
ValueNodeText(tree) ==
  IF ~tree.item_list \/ tree.items = << >>
  THEN [raised |-> TRUE, text |-> NoText]
  ELSE LET item == Head(tree.items)
           vi == FindFirst(item, "v")
       IN  IF vi = 0 THEN [raised |-> TRUE, text |-> NoText]
           ELSE [raised |-> FALSE, text |-> item[vi].text]

\* int(item.find('v').text) on a parsed response.
CountOf(tree) ==
  LET node == ValueNodeText(tree)
  IN  IF node.raised THEN Raise("AttributeError")
      ELSE IF node.text = NoText THEN Raise("TypeError")
      ELSE IF ~IsIntText(node.text) THEN Raise("ValueError")
      ELSE Return(PyInt(IntOfText(node.text)))

\* (mutant: a failed count query is answered with a count of 0)
GetNumberOfDevices_Swallowed(resp) ==
  LET r == RequestAndReceiveXml(resp)
  IN  IF r.raised \/ CountOf(r.tree).kind = "raise" THEN Return(PyInt(0))
      ELSE CountOf(r.tree)

\* RothHeatingAPI.get_number_of_devices: every exception is logged and
\* raised again.
GetNumberOfDevices(resp) ==
  LET r == RequestAndReceiveXml(resp)
  IN  IF r.raised THEN Raise(r.exc) ELSE CountOf(r.tree)

\* RothRawReader.get_number_of_devices: the same query, every exception
\* logged and answered with None.
RawGetNumberOfDevices(resp) ==
  LET r == GetNumberOfDevices(resp)
  IN  IF r.kind = "raise" THEN Return(PyNone) ELSE r

\* RothHeatingAPI.get_system_status: the raw text of the value node.
GetSystemStatus(resp) ==
  LET r == RequestAndReceiveXml(resp)
  IN  IF r.raised THEN Raise(r.exc)
      ELSE LET node == ValueNodeText(r.tree)
           IN  IF node.raised THEN Raise("AttributeError")
               ELSE IF node.text = NoText THEN Return(PyNone)
               ELSE Return(PyStr(node.text))

\* RothHeatingAPI.get_device_data: one exchange, then the inline decode.
GetDeviceData(resp, sch) ==
  LET r == RequestAndReceiveXml(resp)
  IN  IF r.raised THEN Raise(r.exc)
      ELSE LET dec == DecodeDeviceData(r.tree, sch)
           IN  IF dec.raised THEN Raise("ValueError")
               ELSE ReturnData(dec.data)

\* ------------------------------------ RothHeatingAPI.get_all_devices_data
\* The inner handler of the device loop: `except Exception`.
ExceptionClasses ==
  {"Exception", "TimeoutException", "ConnectError", "ParseError",
   "AttributeError", "TypeError", "ValueError"}

\* (mutant: a timeout escapes the inner handler)
DeviceErrorCaught_NotTimeout(exc) ==
  exc \in ExceptionClasses \ {"TimeoutException"}

DeviceErrorCaught(exc) == exc \in ExceptionClasses

\* The key a device's data is stored under: devices_data[device_id].
DeviceKey(device_id) == device_id

\* The body of the device loop after get_device_data(device_id) ended as r:
\* non-empty data is stored, a caught failure only logged.
StoreDevice(devices_data, device_id, r) ==
  IF r.kind = "return" /\ r.data # EmptyDict
  THEN DictSet(devices_data, DeviceKey(device_id), r.data)
  ELSE devices_data

\* ------------------------------------------------------------- writes
\* (mutant: every 2xx status counts as success)
WriteSucceeded_Any2xx(status) == status >= 200 /\ status < 300

\* response.status_code == 200
WriteSucceeded(status) == status = HttpOk

\* The outcome of a write's POST: True on 200, False on every other status
\* and, through the except clause, on every transport failure.
WriteOutcome(resp) ==
  IF resp.kind # "http" THEN Return(PyBool(FALSE))
  ELSE Return(PyBool(WriteSucceeded(resp.status)))

Payload(id, obj, val) == [ID |-> id, OBJ |-> obj, VAL |-> val]
NoPayload == Payload(0, "", PyNone)

\* set_target_temperature as bound on the class (the second definition):
\* the form fields posted and the boolean returned.
SetTargetTemperature(device_id, temperature, resp) ==
  [sent |-> Payload(device_id, "TempSetpoint", PyFloat(temperature)),
   result |-> WriteOutcome(resp)]

\* set_mode
SetMode(device_id, mode, resp) ==
  [sent |-> Payload(device_id, "OperationMode", PyInt(mode)),
   result |-> WriteOutcome(resp)]

\* set_temperature: delegates to set_target_temperature.
SetTemperature(device_id, temperature, resp) ==
  SetTargetTemperature(device_id, temperature, resp)

\* set_operation_mode as bound on the class: delegates to set_mode.
SetOperationMode(device_id, mode, resp) == SetMode(device_id, mode, resp)

\* The scaling of the shadowed first definition of set_target_temperature:
\* raw_temp = int(temperature * 100).
WriteScale(temperature) == IntTrunc(FloatMul100(temperature))

\* ------------------------------------------------------------------ state
VARIABLES
  \* the decoders, applied to an item the controller builds slot by slot
  dphase,       \* "ask", "build", "ready", "parsed", "done", "read"
  schemaStart,  \* the first entry of the schema the query covers
  dev,          \* the device index of the query
  slots,        \* what the controller sent for each slot, in schema order
  device_list,  \* list(item): the children of the response item
  parameter,    \* RothRawReader._parameter after parse_device_response
  decoded,      \* the outcome of get_device_data's inline decode
  request,      \* the name elements the device query posted
  cursors,      \* parse_device_response: the cursor at each run of the body
  list_iterator,\*   and the cursor when the walk ended
  exposed,      \* what the accessors of the reader returned
  \* the protocol client, called by the integration
  apc,          \* "idle", or the position inside get_all_devices_data
  op,           \* the operation called last
  args,         \* its arguments
  xchg,         \* its last HTTP exchange: the response met, whether parsed
  result,       \* how it ended
  sent,         \* the form fields the last write posted
  num_devices,  \* get_all_devices_data: the count obtained (-1: none)
  device_id,    \*   the loop variable
  devices_data, \*   the mapping being filled
  attempted,    \*   the indices get_device_data was called with, in order
  outcomes,     \*   how each of those calls ended
  requests,     \* the items the call posted to the read path, in order
  open_clients, \* the HTTP clients created and not yet closed
  \* the coordinator's poll cycle
  ppc,          \* "wait", "get_all", "status", "ended"
  elapsed,      \* seconds since asyncio.timeout(30) was entered
  poll,         \* how _async_update_data ended
  coordinator,  \* the module of the coordinator class that polls
  \* one RothRawReader and the collection of test_raw_implementation
  rphase,       \* "idle", "updated", "read", "collected", "decoded"
  updated,      \* what the last update_device_data returned
  update_id,    \* the device it was called for (-1: no call yet)
  entry,        \* the entry of all_devices collected for that device
  decoded_entry,\* what decode_magic_numbers made of the entry
  \* the Home Assistant side: a climate entity and the config flow
  handler,      \* the handler called last and its arguments
  writes,       \* the writes it issued
  refreshes,    \* the coordinator refreshes it requested
  flow,         \* what async_step_user returned
  entries       \* the hosts of the config entries that exist

dvars == <<dphase, schemaStart, dev, slots, device_list, parameter, decoded,
           request, cursors, list_iterator, exposed>>

avars == <<apc, op, args, xchg, result, sent, num_devices, device_id,
           devices_data, attempted, outcomes, requests, open_clients>>

loopvars == <<num_devices, device_id, devices_data, attempted, outcomes>>

pvars == <<ppc, elapsed, poll, coordinator>>

rvars == <<rphase, updated, update_id, entry, decoded_entry>>

hvars == <<handler, writes, refreshes, flow, entries>>

vars == <<dvars, avars, pvars, rvars, hvars>>

Schema == SchemaFrom(schemaStart)

\* --------------------------------------------------- the controller's item
\* The texts a value element carries: none, the controller's own "NA", an
\* integer zero, another integer, and a text that is no number.
ValueTexts == {NoText, NA, <<"0">>, <<"7">>, <<"x">>}

\* The texts the first name element carries: the wire name asked for, the
\* same without its ".", the same without its "G", and no text.  The later
\* name elements carry the wire name.
NameTexts(s) ==
  IF s = 1
  THEN {WireName(dev, Schema[1]),
        <<"G", DigitText(dev), Schema[1].name>>,
        <<DigitText(dev), ".", Schema[1].name>>,
        NoText}
  ELSE {WireName(dev, Schema[s])}

Slot(hn, n, hv, v) ==
  [hasName |-> hn, name |-> n, hasValue |-> hv, value |-> v]

SlotChoices(s) ==
  {Slot(FALSE, NoText, FALSE, NoText)}
    \cup {Slot(TRUE, n, FALSE, NoText) : n \in NameTexts(s)}
    \cup {Slot(FALSE, NoText, TRUE, v) : v \in ValueTexts}
    \cup {Slot(TRUE, n, TRUE, v) : n \in NameTexts(s), v \in ValueTexts}

SlotElems(slot) ==
  (IF slot.hasName THEN <<Elem("n", slot.name)>> ELSE << >>)
    \o (IF slot.hasValue THEN <<Elem("v", slot.value)>> ELSE << >>)

RECURSIVE Flatten(_)
Flatten(ss) ==
  IF ss = << >> THEN << >> ELSE SlotElems(Head(ss)) \o Flatten(Tail(ss))

NoDecode == [raised |-> FALSE, data |-> EmptyDict]

\* How a poll ends: the data returned, or UpdateFailed and the call of the
\* cycle it was raised in.
PollResult(how, where, devs, status) ==
  [kind |-> how, failed_at |-> where, devices |-> devs, system_status |-> status]

NoPoll == PollResult("none", "", EmptyDict, PyNone)

\* No poll cycle is running.
PollIdle == ppc = "wait" /\ elapsed = 0 /\ poll = NoPoll

\* parsed_data of an entry of all_devices: six of the accessors' values.
ParsedData(param) ==
  [name |-> GetName(param),
   current_temperature |-> GetCurrentTemperature(param),
   target_temperature |-> GetTargetTemperature(param),
   operation_mode |-> GetOperationMode(param),
   device_id |-> GetDeviceId(param),
   controller_id |-> GetControllerId(param)]

\* An entry of all_devices: the parameters and parsed_data of a device
\* ("data"), {"error": "Failed to update"} ("error"), or no entry ("none").
DeviceEntry(what, param) ==
  [kind |-> what, raw_parameters |-> param, parsed_data |-> ParsedData(param)]

NoEntry == DeviceEntry("none", EmptyDict)
ErrorEntry == DeviceEntry("error", EmptyDict)

\* What decode_magic_numbers returns for an entry: the entry and the keys
\* it added, a text of none standing for a key that is not there.
DecodedEntry(e, mode, week, temp, summary, sname, sid, sstatus) ==
  [entry |-> e,
   operation_mode_decoded |-> mode,
   week_program_decoded |-> week,
   temperature_info |-> temp,
   device_summary |-> summary,
   zone_name |-> sname,
   device_id |-> sid,
   status |-> sstatus]

\* An entry that is passed through with nothing added.
Unchanged(e) ==
  DecodedEntry(e, NoText, NoText, FALSE, FALSE, PyNone, PyNone, "")

\* A fresh reader; nothing collected.
ReaderIdle ==
  /\ rphase = "idle"
  /\ updated = PyNone
  /\ update_id = -1
  /\ entry = NoEntry
  /\ decoded_entry = Unchanged(NoEntry)

\* What a handler of the Home Assistant side was called with: the
\* temperature of the service call (None when absent), the HVAC mode, the
\* host entered in the form ("" when there is no input).
Handler(what, t, m, h) ==
  [name |-> what, temperature |-> t, hvac_mode |-> m, host |-> h]

NoHandler == Handler("none", PyNone, "", "")

\* What async_step_user returns: a form with its errors, a created entry
\* with its title and data, or an abort.
FlowResult(what, err, h) == [type |-> what, errors |-> err, host |-> h]

NoFlow == FlowResult("none", "", "")

\* No handler was called; no config entry exists.
HassIdle ==
  /\ handler = NoHandler
  /\ writes = 0
  /\ refreshes = 0
  /\ flow = NoFlow
  /\ entries = {}

NoArgs == [device_id |-> 0, hundredths |-> 0, mode |-> 0]
NoExchange == [resp |-> Failure("none"), parsed |-> FALSE]

\* The client before any call.
ClientIdle ==
  /\ apc = "idle"
  /\ op = "none"
  /\ args = NoArgs
  /\ xchg = NoExchange
  /\ result = NoResult
  /\ sent = NoPayload
  /\ num_devices = -1
  /\ device_id = 0
  /\ devices_data = EmptyDict
  /\ attempted = << >>
  /\ outcomes = << >>
  /\ requests = << >>
  /\ open_clients = 0

DecodeDevs == {0, 7}
SchemaStarts == {1, 4}

DInit ==
  /\ dphase = "ask"
  /\ schemaStart \in SchemaStarts
  /\ dev \in DecodeDevs
  /\ slots = << >>
  /\ device_list = << >>
  /\ parameter = EmptyDict
  /\ decoded = NoDecode
  /\ request = << >>
  /\ cursors = << >>
  /\ list_iterator = 0
  /\ exposed = Accessors(EmptyDict)
  /\ ClientIdle
  /\ PollIdle
  /\ coordinator = "__init__.py"
  /\ ReaderIdle
  /\ HassIdle

\* The query for device `dev` is built from the schema and posted.
SendQuery ==
  /\ dphase = "ask"
  /\ request' = DeviceRequest(dev, Schema)
  /\ dphase' = "build"
  /\ UNCHANGED <<schemaStart, dev, slots, device_list, parameter, decoded,
                 cursors, list_iterator, exposed, avars, pvars, rvars, hvars>>

\* The controller appends what it has for the next parameter of the query.
AddSlot ==
  /\ dphase = "build"
  /\ Len(slots) < Len(Schema)
  /\ \E c \in SlotChoices(Len(slots) + 1) : slots' = Append(slots, c)
  /\ UNCHANGED <<dphase, schemaStart, dev, device_list, parameter, decoded,
                 request, cursors, list_iterator, exposed, avars, pvars, rvars, hvars>>

\* The response arrives: device_list = list(item).
Respond ==
  /\ dphase = "build"
  /\ device_list' = Flatten(slots)
  /\ dphase' = "ready"
  /\ UNCHANGED <<schemaStart, dev, slots, parameter, decoded, request,
                 cursors, list_iterator, exposed, avars, pvars, rvars, hvars>>

\* RothRawReader.parse_device_response(response)
ParseResponse ==
  /\ dphase = "ready"
  /\ parameter' = ParseDeviceResponse(Tree(<<device_list>>), Schema)
  /\ cursors' = WalkCursors(device_list, Schema, 1, WalkStart)
  /\ list_iterator' = Walk(device_list, Schema, 1, WalkStart).it
  /\ dphase' = "parsed"
  /\ UNCHANGED <<schemaStart, dev, slots, device_list, decoded, request,
                 exposed, avars, pvars, rvars, hvars>>

\* The decode inside RothHeatingAPI.get_device_data, on the same response.
DecodeInline ==
  /\ dphase = "parsed"
  /\ decoded' = DecodeDeviceData(Tree(<<device_list>>), Schema)
  /\ dphase' = "done"
  /\ UNCHANGED <<schemaStart, dev, slots, device_list, parameter, request,
                 cursors, list_iterator, exposed, avars, pvars, rvars, hvars>>

\* The typed accessors of the reader are called on what it parsed.
ReadAccessors ==
  /\ dphase = "done"
  /\ exposed' = Accessors(parameter)
  /\ dphase' = "read"
  /\ UNCHANGED <<schemaStart, dev, slots, device_list, parameter, decoded,
                 request, cursors, list_iterator, avars, pvars, rvars, hvars>>

DNext ==
  \/ SendQuery
  \/ AddSlot
  \/ Respond
  \/ ParseResponse
  \/ DecodeInline
  \/ ReadAccessors

SpecDecode == DInit /\ [][DNext]_vars

\* -------------------------------------------------- the protocol client
\* The bodies the controller answers the count query with: no item_list, no
\* item, an item without value node, a value without text, a value that is
\* no number, and every count up to MaxDevices.
CountItem(text) ==
  <<Elem("n", <<"totalNumberOfDevices">>), Elem("v", text)>>

CountTrees ==
  {NoItemList, Tree(<< >>),
   Tree(<< <<Elem("n", <<"totalNumberOfDevices">>)>> >>),
   Tree(<<CountItem(NoText)>>), Tree(<<CountItem(<<"x">>)>>)}
    \cup {Tree(<<CountItem(<<DigitText(n)>>)>>) : n \in 0..MaxDevices}

CountResponses == Responses(CountTrees, Tree(<<CountItem(<<"2">>)>>))

\* The bodies it answers the status query with.
StatusItem(text) == <<Elem("n", <<"R0.SystemStatus">>), Elem("v", text)>>

StatusTrees ==
  {NoItemList, Tree(<< >>), Tree(<< <<Elem("n", <<"R0.SystemStatus">>)>> >>),
   Tree(<<StatusItem(NoText)>>), Tree(<<StatusItem(<<"1">>)>>)}

StatusResponses == Responses(StatusTrees, Tree(<<StatusItem(<<"1">>)>>))

\* The bodies it answers a device query with: no item_list, no item, and an
\* item with every pair of the schema, the values being all "NA", or the
\* text `num` for the numeric parameters and "x" for the textual ones.
RECURSIVE DeviceItem(_, _, _, _)
DeviceItem(d, sch, num, str) ==
  IF sch = << >> THEN << >>
  ELSE <<Elem("n", WireName(d, Head(sch))),
         Elem("v", IF Head(sch).desc \in TemperatureDescs \cup IntegerDescs
                   THEN num ELSE str)>>
         \o DeviceItem(d, Tail(sch), num, str)

DeviceTrees(d) ==
  {NoItemList, Tree(<< >>),
   Tree(<<DeviceItem(d, Schema, NA, NA)>>),
   Tree(<<DeviceItem(d, Schema, <<"0">>, <<"x">>)>>),
   Tree(<<DeviceItem(d, Schema, <<"7">>, <<"x">>)>>),
   Tree(<<DeviceItem(d, Schema, <<"x">>, <<"x">>)>>)}

DeviceResponses(d) ==
  Responses(DeviceTrees(d), Tree(<<DeviceItem(d, Schema, <<"7">>, <<"x">>)>>))

\* A write's answer has no body the client reads.
WriteResponses ==
  TransportFailures \cup {HttpResp(st, Unparsable) : st \in Statuses}

DeviceIds == 0..(MaxDevices - 1)
Hundredths == 0..MaxHundredths
Modes == 0..3

Exchange(resp) == [resp |-> resp, parsed |-> RequestAndReceiveXml(resp).parsed]

AInit ==
  /\ dphase = "ask"
  /\ schemaStart = 1
  /\ dev = 0
  /\ slots = << >>
  /\ device_list = << >>
  /\ parameter = EmptyDict
  /\ decoded = NoDecode
  /\ request = << >>
  /\ cursors = << >>
  /\ list_iterator = 0
  /\ exposed = Accessors(EmptyDict)
  /\ ClientIdle
  /\ PollIdle
  /\ coordinator = "__init__.py"
  /\ ReaderIdle
  /\ HassIdle

LoopReset ==
  /\ num_devices' = -1
  /\ device_id' = 0
  /\ devices_data' = EmptyDict
  /\ attempted' = << >>
  /\ outcomes' = << >>

\* The client is called when no call is in progress and the caller holds no
\* result it has yet to take.
CanCall == apc = "idle" /\ op = "none"

\* A read that is one exchange: the caller gets the result or the exception.
ReadCall(name, a, req, resp, r) ==
  /\ op' = name
  /\ args' = a
  /\ requests' = <<req>>
  /\ xchg' = Exchange(resp)
  /\ open_clients' = open_clients + LeftOpen(RequestAndReceiveXml(resp).raised)
  /\ result' = r
  /\ sent' = NoPayload
  /\ LoopReset
  /\ UNCHANGED <<apc, dvars, pvars, rvars, hvars>>

CallGetNumberOfDevices ==
  /\ CanCall
  /\ \E resp \in CountResponses :
      ReadCall("get_number_of_devices", NoArgs, CountRequest, resp,
               GetNumberOfDevices(resp))

CallRawGetNumberOfDevices ==
  /\ CanCall
  /\ \E resp \in CountResponses :
      ReadCall("raw_get_number_of_devices", NoArgs, CountRequest, resp,
               RawGetNumberOfDevices(resp))

CallGetSystemStatus ==
  /\ CanCall
  /\ \E resp \in StatusResponses :
      ReadCall("get_system_status", NoArgs, StatusRequest, resp,
               GetSystemStatus(resp))

CallGetDeviceData ==
  /\ CanCall
  /\ \E d \in DeviceIds : \E resp \in DeviceResponses(d) :
      ReadCall("get_device_data", [NoArgs EXCEPT !.device_id = d],
               DeviceRequest(d, Schema), resp, GetDeviceData(resp, Schema))

\* A write: the caller gets a boolean.
WriteCall(name, a, resp, w) ==
  /\ op' = name
  /\ args' = a
  /\ xchg' = [resp |-> resp, parsed |-> FALSE]
  /\ open_clients' = open_clients + LeftOpen(resp.kind # "http")
  /\ result' = w.result
  /\ sent' = w.sent
  /\ LoopReset
  /\ UNCHANGED <<apc, requests, dvars, pvars, rvars, hvars>>

TempArgs(d, h) == [NoArgs EXCEPT !.device_id = d, !.hundredths = h]
ModeArgs(d, m) == [NoArgs EXCEPT !.device_id = d, !.mode = m]

\* The temperature h/100 as the caller's float.
Temperature(h) == FloatDiv100(h)

CallSetTemperature ==
  /\ CanCall
  /\ \E d \in DeviceIds, h \in Hundredths, resp \in WriteResponses :
      WriteCall("set_temperature", TempArgs(d, h), resp,
                SetTemperature(d, Temperature(h), resp))

CallSetTargetTemperature ==
  /\ CanCall
  /\ \E d \in DeviceIds, h \in Hundredths, resp \in WriteResponses :
      WriteCall("set_target_temperature", TempArgs(d, h), resp,
                SetTargetTemperature(d, Temperature(h), resp))

CallSetOperationMode ==
  /\ CanCall
  /\ \E d \in DeviceIds, m \in Modes, resp \in WriteResponses :
      WriteCall("set_operation_mode", ModeArgs(d, m), resp,
                SetOperationMode(d, m, resp))

CallSetMode ==
  /\ CanCall
  /\ \E d \in DeviceIds, m \in Modes, resp \in WriteResponses :
      WriteCall("set_mode", ModeArgs(d, m), resp, SetMode(d, m, resp))

\* get_all_devices_data is entered.
CallGetAllDevicesData ==
  /\ CanCall
  /\ apc' = "count"
  /\ op' = "get_all_devices_data"
  /\ args' = NoArgs
  /\ xchg' = NoExchange
  /\ result' = NoResult
  /\ sent' = NoPayload
  /\ LoopReset
  /\ UNCHANGED <<requests, open_clients, dvars, pvars, rvars, hvars>>

\* num_devices = await self.get_number_of_devices(): a failure is logged
\* and raised to the caller.
GetAllCount ==
  /\ apc = "count"
  /\ \E resp \in CountResponses :
       LET r == GetNumberOfDevices(resp)
       IN  /\ xchg' = Exchange(resp)
           /\ requests' = Append(requests, CountRequest)
           /\ open_clients' =
                open_clients + LeftOpen(RequestAndReceiveXml(resp).raised)
           /\ IF r.kind = "raise"
              THEN /\ result' = r
                   /\ apc' = "idle"
                   /\ UNCHANGED num_devices
              ELSE /\ num_devices' = r.value.n
                   /\ apc' = "devices"
                   /\ UNCHANGED result
  /\ UNCHANGED <<op, args, sent, device_id, devices_data, attempted,
                 outcomes, dvars, pvars, rvars, hvars>>

\* One iteration of `for device_id in range(num_devices)`.
GetAllDevice ==
  /\ apc = "devices"
  /\ device_id < num_devices
  /\ \E resp \in DeviceResponses(device_id) :
       LET r == GetDeviceData(resp, Schema)
       IN  /\ xchg' = Exchange(resp)
           /\ requests' = Append(requests, DeviceRequest(device_id, Schema))
           /\ open_clients' =
                open_clients + LeftOpen(RequestAndReceiveXml(resp).raised)
           /\ attempted' = Append(attempted, device_id)
           /\ outcomes' = Append(outcomes, r)
           /\ IF r.kind = "raise" /\ ~DeviceErrorCaught(r.exc)
              THEN /\ result' = r
                   /\ apc' = "idle"
                   /\ UNCHANGED <<device_id, devices_data>>
              ELSE /\ devices_data' = StoreDevice(devices_data, device_id, r)
                   /\ device_id' = device_id + 1
                   /\ UNCHANGED <<result, apc>>
  /\ UNCHANGED <<op, args, sent, num_devices, dvars, pvars, rvars, hvars>>

\* return devices_data
GetAllReturn ==
  /\ apc = "devices"
  /\ device_id >= num_devices
  /\ result' = ReturnDevices(devices_data)
  /\ apc' = "idle"
  /\ UNCHANGED <<op, args, xchg, sent, loopvars, requests, open_clients,
                 dvars, pvars, rvars, hvars>>

\* The caller takes the result of the call that ended; the client keeps no
\* state from one call to the next.
CallerTakesResult ==
  /\ apc = "idle"
  /\ op # "none"
  /\ op' = "none"
  /\ args' = NoArgs
  /\ xchg' = NoExchange
  /\ result' = NoResult
  /\ sent' = NoPayload
  /\ requests' = << >>
  /\ LoopReset
  /\ UNCHANGED <<apc, open_clients, dvars, pvars, rvars, hvars>>

ANext ==
  \/ CallGetNumberOfDevices
  \/ CallRawGetNumberOfDevices
  \/ CallGetSystemStatus
  \/ CallGetDeviceData
  \/ CallSetTemperature
  \/ CallSetTargetTemperature
  \/ CallSetOperationMode
  \/ CallSetMode
  \/ CallGetAllDevicesData
  \/ GetAllCount
  \/ GetAllDevice
  \/ GetAllReturn
  \/ CallerTakesResult

Spec == AInit /\ [][ANext]_vars

\* ------------------------------ the coordinator: _async_update_data
\* What the exchanges of a poll cycle meet: a timeout of the client, a
\* server error, or a well-formed answer.
PollCountResponses ==
  {Failure("TimeoutException"), HttpResp(500, Unparsable)}
    \cup {HttpResp(HttpOk, Xml(Tree(<<CountItem(<<DigitText(n)>>)>>))) :
            n \in 0..MaxPollDevices}

PollDeviceResponses(d) ==
  {Failure("TimeoutException"), HttpResp(500, Unparsable),
   HttpResp(HttpOk, Xml(Tree(<<DeviceItem(d, Schema, <<"7">>, <<"x">>)>>)))}

PollStatusResponses ==
  {Failure("TimeoutException"), HttpResp(500, Unparsable),
   HttpResp(HttpOk, Xml(Tree(<<StatusItem(<<"1">>)>>)))}

\* The seconds an exchange takes: the client's timeout when it times out.
ExchangeTime(resp) ==
  IF resp.kind = "TimeoutException" THEN ClientTimeout ELSE AnswerTime

\* The two classes named RothDataUpdateCoordinator: the one of
\* coordinator.py polls inside asyncio.timeout(30), the one of __init__.py
\* polls without a deadline.
Coordinators == {"coordinator.py", "__init__.py"}
HasDeadline == coordinator = "coordinator.py"

\* An awaited exchange that would end `time` seconds from now is cancelled
\* when the deadline of asyncio.timeout(30) comes first, and ends when it
\* comes first; at the same instant either happens.
Cancelled(time) == HasDeadline /\ elapsed + time >= PollTimeout
Completes(time) == ~HasDeadline \/ elapsed + time <= PollTimeout

\* asyncio.timeout cancels the call being awaited: CancelledError is no
\* Exception, so no handler of the client catches it (the finally clause
\* closes the client); the context manager raises TimeoutError and the
\* coordinator raises UpdateFailed.
PollCancelled(where) ==
  /\ elapsed' = PollTimeout
  /\ poll' = PollResult("UpdateFailed", where, EmptyDict, PyNone)
  /\ result' = Raise("CancelledError")
  /\ open_clients' = open_clients + LeftOpen(TRUE)
  /\ apc' = "idle"
  /\ ppc' = "ended"

\* The integration before its first poll, with either coordinator class.
PInit ==
  /\ dphase = "ask"
  /\ schemaStart = 1
  /\ dev = 0
  /\ slots = << >>
  /\ device_list = << >>
  /\ parameter = EmptyDict
  /\ decoded = NoDecode
  /\ request = << >>
  /\ cursors = << >>
  /\ list_iterator = 0
  /\ exposed = Accessors(EmptyDict)
  /\ ClientIdle
  /\ PollIdle
  /\ coordinator \in Coordinators
  /\ ReaderIdle
  /\ HassIdle

\* async with asyncio.timeout(30): get_all_devices_data is called.
PollStart ==
  /\ ppc = "wait"
  /\ CanCall
  /\ ppc' = "get_all"
  /\ elapsed' = 0
  /\ apc' = "count"
  /\ op' = "get_all_devices_data"
  /\ UNCHANGED <<args, xchg, result, sent, loopvars, requests, open_clients,
                 poll, coordinator, dvars,
                 rvars, hvars>>

\* get_all_devices_data awaits get_number_of_devices.
PollCount ==
  /\ ppc = "get_all" /\ apc = "count"
  /\ \E resp \in PollCountResponses :
       /\ requests' = Append(requests, CountRequest)
       /\ \/ /\ Cancelled(ExchangeTime(resp))
             /\ PollCancelled("get_number_of_devices")
             /\ UNCHANGED <<xchg, num_devices>>
          \/ /\ Completes(ExchangeTime(resp))
             /\ elapsed' = elapsed + ExchangeTime(resp)
             /\ xchg' = Exchange(resp)
             /\ open_clients' =
                  open_clients + LeftOpen(RequestAndReceiveXml(resp).raised)
             /\ LET r == GetNumberOfDevices(resp)
                IN  IF r.kind = "raise"
                    THEN /\ result' = r
                         /\ apc' = "idle"
                         /\ ppc' = "ended"
                         /\ poll' = PollResult("UpdateFailed",
                                               "get_number_of_devices",
                                               EmptyDict, PyNone)
                         /\ UNCHANGED num_devices
                    ELSE /\ num_devices' = r.value.n
                         /\ apc' = "devices"
                         /\ UNCHANGED <<result, ppc, poll>>
  /\ UNCHANGED <<op, args, sent, device_id, devices_data, attempted,
                 outcomes, coordinator, dvars,
                 rvars, hvars>>

\* One iteration of the device loop inside the poll.
PollDevice ==
  /\ ppc = "get_all" /\ apc = "devices"
  /\ device_id < num_devices
  /\ \E resp \in PollDeviceResponses(device_id) :
       /\ requests' = Append(requests, DeviceRequest(device_id, Schema))
       /\ attempted' = Append(attempted, device_id)
       /\ \/ /\ Cancelled(ExchangeTime(resp))
             /\ PollCancelled("get_device_data")
             /\ UNCHANGED <<xchg, device_id, devices_data, outcomes>>
          \/ /\ Completes(ExchangeTime(resp))
             /\ elapsed' = elapsed + ExchangeTime(resp)
             /\ xchg' = Exchange(resp)
             /\ open_clients' =
                  open_clients + LeftOpen(RequestAndReceiveXml(resp).raised)
             /\ LET r == GetDeviceData(resp, Schema)
                IN  /\ outcomes' = Append(outcomes, r)
                    /\ IF r.kind = "raise" /\ ~DeviceErrorCaught(r.exc)
                       THEN /\ result' = r
                            /\ apc' = "idle"
                            /\ ppc' = "ended"
                            /\ poll' = PollResult("UpdateFailed",
                                                  "get_device_data",
                                                  EmptyDict, PyNone)
                            /\ UNCHANGED <<device_id, devices_data>>
                       ELSE /\ devices_data' =
                                 StoreDevice(devices_data, device_id, r)
                            /\ device_id' = device_id + 1
                            /\ UNCHANGED <<result, apc, ppc, poll>>
  /\ UNCHANGED <<op, args, sent, num_devices, coordinator, dvars,
                 rvars, hvars>>

\* get_all_devices_data returns devices_data to the coordinator.
PollGetAllReturn ==
  /\ ppc = "get_all" /\ apc = "devices"
  /\ device_id >= num_devices
  /\ result' = ReturnDevices(devices_data)
  /\ apc' = "idle"
  /\ ppc' = "status"
  /\ UNCHANGED <<op, args, xchg, sent, loopvars, requests, open_clients,
                 elapsed, poll, coordinator, dvars,
                 rvars, hvars>>

\* system_status = await self.api.get_system_status(), under the same
\* deadline; then the data is returned.
PollStatus ==
  /\ ppc = "status"
  /\ \E resp \in PollStatusResponses :
       /\ requests' = Append(requests, StatusRequest)
       /\ \/ /\ Cancelled(ExchangeTime(resp))
             /\ PollCancelled("get_system_status")
             /\ UNCHANGED xchg
          \/ /\ Completes(ExchangeTime(resp))
             /\ elapsed' = elapsed + ExchangeTime(resp)
             /\ xchg' = Exchange(resp)
             /\ open_clients' =
                  open_clients + LeftOpen(RequestAndReceiveXml(resp).raised)
             /\ ppc' = "ended"
             /\ LET r == GetSystemStatus(resp)
                IN  IF r.kind = "raise"
                    THEN /\ result' = r
                         /\ poll' = PollResult("UpdateFailed",
                                               "get_system_status",
                                               EmptyDict, PyNone)
                    ELSE /\ poll' = PollResult("return", "",
                                               result.devices, r.value)
                         /\ UNCHANGED result
             /\ UNCHANGED apc
  /\ UNCHANGED <<op, args, sent, loopvars, coordinator, dvars,
                 rvars, hvars>>

\* The cycle is over; the next one starts after update_interval.
PollNext ==
  /\ ppc = "ended"
  /\ ppc' = "wait"
  /\ elapsed' = 0
  /\ poll' = NoPoll
  /\ op' = "none"
  /\ args' = NoArgs
  /\ xchg' = NoExchange
  /\ result' = NoResult
  /\ sent' = NoPayload
  /\ requests' = << >>
  /\ LoopReset
  /\ UNCHANGED <<apc, open_clients, coordinator, dvars,
                 rvars, hvars>>

PNext ==
  \/ PollStart
  \/ PollCount
  \/ PollDevice
  \/ PollGetAllReturn
  \/ PollStatus
  \/ PollNext

SpecPoll == PInit /\ [][PNext]_vars

\* ------------------------------ RothRawReader against the controller
\* RothRawReader.request_and_receive_xml: the parsed tree, or the exception
\* raised by the POST, by the status check or by ET.fromstring.
RawRequestAndReceiveXml(resp) ==
  IF resp.kind # "http"
  THEN [raised |-> TRUE, exc |-> resp.kind, tree |-> NoItemList]
  ELSE IF resp.status # HttpOk
  THEN [raised |-> TRUE, exc |-> "Exception", tree |-> NoItemList]
  ELSE IF ~resp.body.xml
  THEN [raised |-> TRUE, exc |-> "ParseError", tree |-> NoItemList]
  ELSE [raised |-> FALSE, exc |-> "", tree |-> resp.body.tree]

\* RothRawReader.update_device_data on a reader holding `held`: what it
\* returns and self._parameter afterwards.  A failed request leaves the
\* mapping alone; parse_device_response resets it and raises nothing.
UpdateDeviceData(held, resp, sch) ==
  LET r == RawRequestAndReceiveXml(resp)
  IN  IF r.raised THEN [returned |-> FALSE, parameter |-> held]
      ELSE [returned |-> TRUE, parameter |-> ParseDeviceResponse(r.tree, sch)]

\* test_raw_implementation, the body of its device loop: a fresh reader is
\* updated, and its parameters are entered when the update succeeded and
\* the mapping is not empty, an error entry when the update failed.
CollectEntry(resp, sch) ==
  LET u == UpdateDeviceData(EmptyDict, resp, sch)
  IN  IF u.returned
      THEN IF DOMAIN u.parameter # {} THEN DeviceEntry("data", u.parameter)
           ELSE NoEntry
      ELSE ErrorEntry

\* The truth value of an accessor's result: None and 0 are false.
Truthy(v) ==
  CASE v.t = "none" -> FALSE
    [] v.t = "int" -> v.n # 0
    [] v.t = "bool" -> v.n # 0
    [] v.t = "str" -> v.s # NoText
    [] v.t = "float" -> v.x # DblZero

\* The table of operation modes, by str(op_mode).
OperationModeTable(op_mode) ==
  CASE op_mode = "0" -> <<"AUTO/NORMAL">>
    [] op_mode = "1" -> <<"MANUAL/COMFORT">>
    [] op_mode = "2" -> <<"ECO/SETBACK">>
    [] op_mode = "3" -> <<"OFF/FROST_PROTECTION">>
    [] OTHER -> <<"Unknown Mode (", op_mode, ")">>

\* if parsed.get('operation_mode'): the description of the mode, none when
\* the key is not attached.
OperationModeDecoded(parsed) ==
  IF Truthy(parsed.operation_mode)
  THEN OperationModeTable(DigitText(parsed.operation_mode.n))
  ELSE NoText

\* The table of week programs, by str(week_prog).
WeekProgramTable(week_prog) ==
  CASE week_prog = <<"0">> -> <<"Default Program">>
    [] week_prog = <<"1">> -> <<"Weekly Program 1">>
    [] week_prog = <<"2">> -> <<"Weekly Program 2">>
    [] week_prog = <<"3">> -> <<"Weekly Program 3">>
    [] week_prog = <<"4">> -> <<"Weekly Program 4">>
    [] OTHER -> <<"Custom Program">> \o week_prog

\* if 'week_program' in device_info.get("raw_parameters", {})
WeekProgramDecoded(raw_parameters) ==
  IF "week_program" \in DOMAIN raw_parameters
  THEN WeekProgramTable(raw_parameters["week_program"])
  ELSE NoText

\* Whether temperature_info is attached.
HasTemperatureInfo(parsed) ==
  parsed.current_temperature # PyNone \/ parsed.target_temperature # PyNone

\* The status of device_summary.
SummaryStatus(parsed) ==
  IF parsed.current_temperature # PyNone THEN "Active" ELSE "Inactive"

\* decode_magic_numbers on one entry of the mapping: an entry with
\* parsed_data is copied and extended, any other entry is kept as it is.
DecodeMagicNumbers(e) ==
  IF e.kind = "data"
  THEN DecodedEntry(e,
                    OperationModeDecoded(e.parsed_data),
                    WeekProgramDecoded(e.raw_parameters),
                    HasTemperatureInfo(e.parsed_data),
                    TRUE,
                    e.parsed_data.name,
                    e.parsed_data.device_id,
                    SummaryStatus(e.parsed_data))
  ELSE Unchanged(e)

\* The devices the reader is updated for.
ReaderDevices == 0..(MaxDevices - 1)

\* The bodies the controller answers the reader with: those of a device
\* query, one whose codes are 2, and one cut short after its first pair.
ReaderTrees(d) ==
  DeviceTrees(d)
    \cup {Tree(<<DeviceItem(d, Schema, <<"2">>, <<"x">>)>>),
          Tree(<<SubSeq(DeviceItem(d, Schema, <<"7">>, <<"x">>), 1, 3)>>)}

ReaderResponses(d) ==
  Responses(ReaderTrees(d), Tree(<<DeviceItem(d, Schema, <<"7">>, <<"x">>)>>))

RInit ==
  /\ dphase = "ask"
  /\ schemaStart \in SchemaStarts
  /\ dev = 0
  /\ slots = << >>
  /\ device_list = << >>
  /\ parameter = EmptyDict
  /\ decoded = NoDecode
  /\ request = << >>
  /\ cursors = << >>
  /\ list_iterator = 0
  /\ exposed = Accessors(EmptyDict)
  /\ ClientIdle
  /\ PollIdle
  /\ coordinator = "__init__.py"
  /\ ReaderIdle
  /\ HassIdle

\* reader.update_device_data(d) on the one reader, whatever it holds.
CallUpdateDeviceData ==
  /\ rphase \in {"idle", "updated", "read"}
  /\ \E d \in ReaderDevices : \E resp \in ReaderResponses(d) :
       LET u == UpdateDeviceData(parameter, resp, Schema)
       IN  /\ parameter' = u.parameter
           /\ updated' = PyBool(u.returned)
           /\ update_id' = d
           /\ request' = DeviceRequest(d, Schema)
           /\ xchg' = Exchange(resp)
  /\ rphase' = "updated"
  /\ UNCHANGED <<dphase, schemaStart, dev, slots, device_list, decoded,
                 cursors, list_iterator, exposed, apc, op, args, result,
                 sent, loopvars, requests, open_clients, entry,
                 decoded_entry, pvars, hvars>>

\* The accessors of the reader are called after the update.
ReaderRead ==
  /\ rphase = "updated"
  /\ exposed' = Accessors(parameter)
  /\ rphase' = "read"
  /\ UNCHANGED <<dphase, schemaStart, dev, slots, device_list, parameter,
                 decoded, request, cursors, list_iterator, avars, pvars,
                 updated, update_id, entry, decoded_entry, hvars>>

\* test_raw_implementation collects one device with a reader of its own.
CollectDevice ==
  /\ rphase = "idle"
  /\ \E d \in ReaderDevices : \E resp \in ReaderResponses(d) :
       /\ entry' = CollectEntry(resp, Schema)
       /\ update_id' = d
       /\ xchg' = Exchange(resp)
  /\ rphase' = "collected"
  /\ UNCHANGED <<dvars, apc, op, args, result, sent, loopvars, requests,
                 open_clients, updated, decoded_entry, pvars, hvars>>

\* decode_magic_numbers on the entry collected, if there is one.
DecodeMagic ==
  /\ rphase = "collected"
  /\ entry.kind # "none"
  /\ decoded_entry' = DecodeMagicNumbers(entry)
  /\ rphase' = "decoded"
  /\ UNCHANGED <<dvars, avars, pvars, updated, update_id, entry, hvars>>

RNext ==
  \/ CallUpdateDeviceData
  \/ ReaderRead
  \/ CollectDevice
  \/ DecodeMagic

SpecReader == RInit /\ [][RNext]_vars

\* ------------------------------------- the climate entity and the flow
\* The HVAC modes a service call can name; "cool" is one without a code.
HvacModes == {"auto", "heat", "eco", "off", "cool"}

\* HVAC_MODES.get(hvac_mode)
HvacModeCode(hvac_mode) ==
  CASE hvac_mode = "auto" -> PyInt(0)
    [] hvac_mode = "heat" -> PyInt(1)
    [] hvac_mode = "eco" -> PyInt(2)
    [] hvac_mode = "off" -> PyInt(3)
    [] OTHER -> PyNone

\* (mutant: the refresh is requested whatever the write returned)
RefreshRequested_Always(success) == TRUE

\* if success: await self.coordinator.async_request_refresh()
RefreshRequested(success) == Truthy(success)

\* What a handler of the entity did: the write it issued, if any, and the
\* refreshes it requested.
Wrote(w) ==
  [writes |-> 1, sent |-> w.sent, result |-> w.result,
   refreshes |-> IF RefreshRequested(w.result.value) THEN 1 ELSE 0]

NoWrite ==
  [writes |-> 0, sent |-> NoPayload, result |-> NoResult, refreshes |-> 0]

\* RothClimate.async_set_temperature(**kwargs) of the entity of `id`.
AsyncSetTemperature(id, temperature, resp) ==
  IF temperature = PyNone THEN NoWrite
  ELSE Wrote(SetTargetTemperature(id, temperature.x, resp))

\* RothClimate.async_set_hvac_mode(hvac_mode)
AsyncSetHvacMode(id, hvac_mode, resp) ==
  LET operation_mode == HvacModeCode(hvac_mode)
  IN  IF operation_mode = PyNone THEN NoWrite
      ELSE Wrote(SetOperationMode(id, operation_mode.n, resp))

\* (mutant: a status read that raises is not taken for a failure)
ValidationFailed_Never(r) == FALSE

\* except Exception around _validate_input, whose only awaited call is
\* get_system_status.
ValidationFailed(r) == r.kind = "raise"

\* RothHeatingConfigFlow.async_step_user: no input shows the form; a host
\* whose status read raises shows it with cannot_connect; a host already
\* configured aborts; otherwise the entry is created.
AsyncStepUser(host, resp, configured) ==
  IF host = "" THEN FlowResult("form", "", "")
  ELSE IF ValidationFailed(GetSystemStatus(resp))
  THEN FlowResult("form", "cannot_connect", "")
  ELSE IF host \in configured
  THEN FlowResult("abort", "already_configured", host)
  ELSE FlowResult("create_entry", "", host)

\* The temperatures of a service call: absent, or one of two values.
ServiceTemperatures ==
  {PyNone, PyFloat(Temperature(0)), PyFloat(Temperature(MaxHundredths))}

\* The hosts a user enters.
Hosts == {"a", "b"}

HInit ==
  /\ dphase = "ask"
  /\ schemaStart = 1
  /\ dev = 0
  /\ slots = << >>
  /\ device_list = << >>
  /\ parameter = EmptyDict
  /\ decoded = NoDecode
  /\ request = << >>
  /\ cursors = << >>
  /\ list_iterator = 0
  /\ exposed = Accessors(EmptyDict)
  /\ ClientIdle
  /\ PollIdle
  /\ coordinator = "__init__.py"
  /\ ReaderIdle
  /\ HassIdle

\* A handler of the entity ran: what it wrote and requested.
EntityCall(h, resp, did) ==
  /\ handler' = h
  /\ writes' = did.writes
  /\ refreshes' = did.refreshes
  /\ sent' = did.sent
  /\ result' = did.result
  /\ IF did.writes = 0 THEN UNCHANGED <<xchg, open_clients>>
     ELSE /\ xchg' = [resp |-> resp, parsed |-> FALSE]
          /\ open_clients' = open_clients + LeftOpen(resp.kind # "http")
  /\ UNCHANGED <<apc, op, args, loopvars, requests, flow, entries, dvars,
                 pvars, rvars>>

\* The climate service set_temperature reaches an entity; the entities are
\* set up from a config entry.
ClimateSetTemperature ==
  /\ entries # {}
  /\ \E id \in DeviceIds, t \in ServiceTemperatures, resp \in WriteResponses :
       EntityCall(Handler("async_set_temperature", t, "", ""), resp,
                  AsyncSetTemperature(id, t, resp))

\* The climate service set_hvac_mode reaches the entity.
ClimateSetHvacMode ==
  /\ entries # {}
  /\ \E id \in DeviceIds, m \in HvacModes, resp \in WriteResponses :
       EntityCall(Handler("async_set_hvac_mode", PyNone, m, ""), resp,
                  AsyncSetHvacMode(id, m, resp))

\* A step of the flow: the status read when there is input, then the form,
\* the abort or the new entry.
FlowStep(name, host, resp) ==
  /\ handler' = Handler(name, PyNone, "", host)
  /\ flow' = AsyncStepUser(host, resp, entries)
  /\ entries' = IF flow'.type = "create_entry" THEN entries \cup {host}
                ELSE entries
  /\ IF host = "" THEN UNCHANGED <<xchg, requests, open_clients>>
     ELSE /\ xchg' = Exchange(resp)
          /\ requests' = <<StatusRequest>>
          /\ open_clients' =
               open_clients + LeftOpen(RequestAndReceiveXml(resp).raised)
  /\ UNCHANGED <<apc, op, args, result, sent, loopvars, writes, refreshes,
                 dvars, pvars, rvars>>

\* The user opens the form or submits it.
FlowStepUser ==
  /\ \E host \in Hosts \cup {""}, resp \in StatusResponses :
       FlowStep("async_step_user", host, resp)

\* async_step_import passes the configuration of configuration.yaml on.
FlowStepImport ==
  /\ \E host \in Hosts, resp \in StatusResponses :
       FlowStep("async_step_import", host, resp)

HNext ==
  \/ ClimateSetTemperature
  \/ ClimateSetHvacMode
  \/ FlowStepUser
  \/ FlowStepImport

SpecHass == HInit /\ [][HNext]_vars

\* ------------------------------------------------- claims on the decoders
\* The item holds one slot per schema entry (some of its elements absent).
FullItem == Len(slots) = Len(Schema)

ParsedNow == dphase \in {"parsed", "done"}

\* The entries of a mapping, the extracted "Unique ID" apart.
ParamKeys(param) == (DOMAIN param) \ {"Unique ID"}

\* C3 (as claimed): for a response item built from the schema with any
\* combination of present and absent name and value elements, both decoders
\* yield exactly len(schema) entries and neither raises.
C3_ExactlyLenEntries ==
  (dphase = "done" /\ FullItem) =>
    /\ Cardinality(ParamKeys(parameter)) = Len(Schema)
    /\ ~decoded.raised
    /\ Cardinality(DOMAIN decoded.data) = Len(Schema)

\* Exactly the name element of slot k is missing from the item.
OnlyNameMissing(k) ==
  /\ FullItem
  /\ k \in 1..Len(slots)
  /\ \A s \in 1..Len(slots) :
       slots[s].hasValue /\ (slots[s].hasName <=> s # k)

\* C4: in parse_device_response, when exactly the name node of slot k is
\* missing (its value node still there), slot k is recorded as "NA" and every
\* later slot j > k is decoded to the value the controller sent for slot j
\* ("NA" standing for a value without text).
C4_RewindRealigns ==
  \A k \in 1..Len(slots) :
    (ParsedNow /\ OnlyNameMissing(k)) =>
      /\ Schema[k].desc \in DOMAIN parameter
      /\ parameter[Schema[k].desc] = NA
      /\ \A j \in (k + 1)..Len(slots) :
           /\ Schema[j].desc \in DOMAIN parameter
           /\ parameter[Schema[j].desc] =
                (IF slots[j].value = NoText THEN NA ELSE slots[j].value)

\* C4 witness: a name node is missing before the last slot, whose value "7"
\* is recovered after the rewind.
C4_Witness ==
  /\ dphase = "parsed"
  /\ \E k \in 1..(Len(slots) - 1) :
       /\ OnlyNameMissing(k)
       /\ slots[Len(slots)].value = <<"7">>
       /\ Schema[Len(slots)].desc \in DOMAIN parameter
       /\ parameter[Schema[Len(slots)].desc] = <<"7">>
       /\ parameter[Schema[k].desc] = NA

\* The first slot came with a name node and a value that has text.
FirstSlotHasValue ==
  /\ Len(slots) >= 1
  /\ slots[1].hasName /\ slots[1].hasValue
  /\ slots[1].value # NoText

\* C5 (as claimed): when the first slot has a value, a name text
\* G<id>.<rest> gives Unique ID <id>, and a name text without the leading
\* "G" or without the "." leaves Unique ID unset.
C5_UniqueId ==
  (ParsedNow /\ FirstSlotHasValue) =>
    LET name == slots[1].name
        wellFormed == /\ Len(name) >= 3
                      /\ name[1] = "G"
                      /\ name[3] = "."
    IN  /\ wellFormed =>
             /\ "Unique ID" \in DOMAIN parameter
             /\ parameter["Unique ID"] = <<name[2]>>
        /\ ~wellFormed => "Unique ID" \notin DOMAIN parameter

\* Every slot of the item came as a pair: its name element, carrying the
\* wire name asked for, and its value element.
WellFormedItem ==
  /\ FullItem
  /\ \A s \in 1..Len(slots) :
       /\ slots[s].hasName /\ slots[s].hasValue
       /\ slots[s].name = <<"G", DigitText(dev), ".", Schema[s].name>>

\* The controller reports the value as not available: "NA" or no text.
Unavailable(value) == value \in {NoText, <<"NA">>}

\* Every value that is available is written as its kind is: digits for a
\* temperature or an integer parameter.
ValuesParsable ==
  \A s \in 1..Len(slots) :
    (Schema[s].desc \in TemperatureDescs \cup IntegerDescs
       /\ ~Unavailable(slots[s].value)) => IsIntText(slots[s].value)

\* C12: on a well-formed item in which any subset of the values is "NA" or
\* without text (the others parsable), the decode of get_device_data does
\* not raise and returns every available parameter with its value.
C12_UnavailableTolerated ==
  (dphase = "done" /\ WellFormedItem /\ ValuesParsable) =>
    /\ ~decoded.raised
    /\ \A s \in 1..Len(slots) :
         ~Unavailable(slots[s].value) =>
           /\ Schema[s].desc \in DOMAIN decoded.data
           /\ decoded.data[Schema[s].desc] =
                Coerce(Schema[s].desc, slots[s].value).v

\* C12 witness: the first value is "NA", the second has no text, the third
\* is 7, and the decode returned the third parameter alone.
C12_Witness ==
  /\ dphase = "done"
  /\ WellFormedItem
  /\ slots[1].value = <<"NA">>
  /\ slots[2].value = NoText
  /\ slots[3].value = <<"7">>
  /\ ~decoded.raised
  /\ DOMAIN decoded.data = {Schema[3].desc}

\* The walk of parse_device_response holds a value for the entry.
WalkHasValue(desc) == desc \in DOMAIN parameter /\ parameter[desc] # <<"NA">>

\* C13 (as claimed): whenever the decode inside get_device_data returns, it
\* gives each parameter what the cursor walk of parse_device_response gives
\* it on the same item: the same raw value, coerced, or no value where the
\* walk has "NA" or nothing.
C13_InlineMatchesWalk ==
  (dphase = "done" /\ ~decoded.raised) =>
    \A k \in 1..Len(Schema) :
      LET desc == Schema[k].desc
      IN  /\ (desc \in DOMAIN decoded.data) <=> WalkHasValue(desc)
          /\ WalkHasValue(desc) =>
               decoded.data[desc] = Coerce(desc, parameter[desc]).v

\* The wire name of the k-th entry of the schema the query covers.
ExpectedName(k) ==
  <<"G", DigitText(dev), ".", XmlElementList[schemaStart + k - 1].name>>

\* C17: the query posted for device d holds one name element per schema
\* entry, G<d>.<name>, in schema order, and on a well-formed response both
\* decoders give the value of the k-th pair to the k-th schema entry.
C17_SameOrder ==
  /\ (dphase # "ask") =>
       /\ Len(request) = SchemaLen
       /\ \A k \in 1..SchemaLen : request[k] = ExpectedName(k)
  /\ (dphase = "done" /\ WellFormedItem /\ ValuesParsable) =>
       \A k \in 1..SchemaLen :
         LET desc == XmlElementList[schemaStart + k - 1].desc
             value == slots[k].value
         IN  /\ desc \in DOMAIN parameter
             /\ parameter[desc] = (IF value = NoText THEN <<"NA">> ELSE value)
             /\ IF Unavailable(value)
                THEN desc \notin DOMAIN decoded.data
                ELSE /\ desc \in DOMAIN decoded.data
                     /\ decoded.data[desc] = Coerce(desc, value).v

\* C17 witness: the query for device 7 was posted from the fourth schema
\* entry on, the response carried the values 0, 7 and 0 in that order, and
\* both decoders hold 7 for the middle entry alone.
C17_Witness ==
  /\ dphase = "done"
  /\ dev = 7 /\ schemaStart = 4
  /\ request[2] = <<"G", "7", ".", "OPMode">>
  /\ WellFormedItem
  /\ slots[1].value = <<"0">> /\ slots[2].value = <<"7">>
  /\ slots[3].value = <<"0">>
  /\ parameter["Operation mode"] = <<"7">>
  /\ parameter["Week program"] = <<"0">>
  /\ decoded.data["Operation mode"] = PyInt(7)
  /\ decoded.data["Setpoint"] = PyFloat(FloatDiv100(0))

\* The item is a run of p complete pairs and nothing after them.
PairsThenNothing(p) ==
  /\ p <= Len(slots)
  /\ \A s \in 1..Len(slots) :
       IF s <= p THEN slots[s].hasName /\ slots[s].hasValue
       ELSE ~slots[s].hasName /\ ~slots[s].hasValue

\* C18: parse_device_response on an item of any length: the loop body runs
\* at most len(schema) times and at most once per element, every element it
\* reads lies inside the list, the walk ends before the schema does only
\* with the cursor at or past the end of the list, the entries the walk did
\* not reach are unset, and an item of p < len(schema) pairs sets exactly
\* the first p entries (an empty item none).
C18_ShortWalkStops ==
  ParsedNow =>
    /\ Len(cursors) <= Len(Schema)
    /\ Len(cursors) <= Len(device_list)
    /\ \A s \in 1..Len(cursors) :
         WalkReads(device_list, cursors[s]) \subseteq 0..(Len(device_list) - 1)
    /\ (Len(cursors) < Len(Schema)) => list_iterator >= Len(device_list)
    /\ \A k \in (Len(cursors) + 1)..Len(Schema) :
         Schema[k].desc \notin DOMAIN parameter
    /\ \A p \in 0..(Len(Schema) - 1) :
         PairsThenNothing(p) =>
           ParamKeys(parameter) = {Schema[k].desc : k \in 1..p}

\* C18 witness: the item holds the first pair and the name of the second
\* only; the walk ran twice, stopped at the end of the list and left the
\* second and the third entry unset.
C18_Witness ==
  /\ dphase = "parsed"
  /\ FullItem
  /\ Len(device_list) = 3
  /\ slots[1].hasName /\ slots[1].hasValue
  /\ slots[2].hasName /\ ~slots[2].hasValue
  /\ cursors = <<0, 2>>
  /\ list_iterator = 4
  /\ ParamKeys(parameter) = {Schema[1].desc}

\* The loop body ran with the cursor on a name node that a value element
\* without text follows.
EmptyValueAt(c) ==
  /\ device_list[c + 1].tag = "n"
  /\ c + 1 < Len(device_list)
  /\ device_list[c + 2].tag = "v"
  /\ device_list[c + 2].text = NoText

\* C19: in parse_device_response, a name node at the cursor followed by a
\* value element without text records the entry as "NA", and no schema
\* entry is ever recorded as an empty text.
C19_EmptyValueIsNA ==
  ParsedNow =>
    /\ \A s \in 1..Len(cursors) :
         EmptyValueAt(cursors[s]) =>
           /\ Schema[s].desc \in DOMAIN parameter
           /\ parameter[Schema[s].desc] = <<"NA">>
    /\ \A k \in 1..Len(Schema) :
         Schema[k].desc \in DOMAIN parameter =>
           parameter[Schema[k].desc] # NoText

\* C19 witness: the second pair came with an empty value element after a
\* first pair with the value 7, and the second entry is "NA".
C19_Witness ==
  /\ dphase = "parsed"
  /\ Len(slots) >= 2
  /\ slots[1].hasName /\ slots[1].hasValue /\ slots[1].value = <<"7">>
  /\ slots[2].hasName /\ slots[2].hasValue /\ slots[2].value = NoText
  /\ cursors[2] = 2
  /\ parameter[Schema[1].desc] = <<"7">>
  /\ parameter[Schema[2].desc] = <<"NA">>

\* The parameters that carry a code: the operation mode, the week program.
CodeDescs == {"Operation mode", "Week program"}

\* C21: a code the controller sends for the operation mode or the week
\* program, whatever integer it is (7 is no mode and no program), is what
\* get_device_data returns and what get_operation_mode / get_week_program
\* return: the integer itself.
C21_CodesPassThrough ==
  (dphase = "read" /\ WellFormedItem) =>
    \A k \in 1..Len(slots) :
      (Schema[k].desc \in CodeDescs /\ IsIntText(slots[k].value)) =>
        /\ AccessorOf(exposed, Schema[k].desc).t = "int"
        /\ AccessorOf(exposed, Schema[k].desc).n = IntOfText(slots[k].value)
        /\ ValuesParsable =>
             /\ Schema[k].desc \in DOMAIN decoded.data
             /\ decoded.data[Schema[k].desc].t = "int"
             /\ decoded.data[Schema[k].desc].n = IntOfText(slots[k].value)

\* C21 witness: the controller sent 7 for the week program and for the
\* operation mode, and both decoders hold the integer 7 for each.
C21_Witness ==
  /\ dphase = "read"
  /\ schemaStart = 4
  /\ WellFormedItem
  /\ slots[1].value = <<"7">> /\ slots[2].value = <<"7">>
  /\ slots[3].value = <<"0">>
  /\ exposed.week_program = PyInt(7)
  /\ exposed.operation_mode = PyInt(7)
  /\ decoded.data["Operation mode"] = PyInt(7)
  /\ decoded.data["Week program"] = PyInt(7)

\* C22: a value of "0" is a value: get_device_data returns the integer 0
\* for an integer parameter and the float 0.0 for a temperature, and the
\* typed accessors of the reader return the same, never None.
C22_ZeroIsAValue ==
  (dphase = "read" /\ WellFormedItem) =>
    \A k \in 1..Len(slots) :
      LET desc == Schema[k].desc
          zero == IF desc \in TemperatureDescs
                  THEN [t |-> "float", n |-> 0, s |-> << >>,
                        x |-> [m |-> <<0, 0, 0>>, k |-> 0]]
                  ELSE [t |-> "int", n |-> 0, s |-> << >>,
                        x |-> [m |-> <<0, 0, 0>>, k |-> 0]]
      IN  (slots[k].value = <<"0">>
             /\ desc \in TemperatureDescs \cup IntegerDescs) =>
            /\ AccessorOf(exposed, desc) = zero
            /\ ValuesParsable =>
                 /\ desc \in DOMAIN decoded.data
                 /\ decoded.data[desc] = zero

\* C22 witness: the controller sent "0" for the week program and for the
\* setpoint; the reader exposes 0 and 0.0 and get_device_data holds both.
C22_Witness ==
  /\ dphase = "read"
  /\ schemaStart = 4
  /\ WellFormedItem
  /\ slots[1].value = <<"0">> /\ slots[3].value = <<"0">>
  /\ slots[2].value = <<"NA">>
  /\ exposed.week_program = PyInt(0)
  /\ exposed.target_temperature = PyFloat(DblZero)
  /\ exposed.operation_mode = PyNone
  /\ DOMAIN decoded.data = {"Week program", "Setpoint"}
  /\ decoded.data["Setpoint"] = PyFloat(DblZero)

\* C23 (as claimed): no parameter of either decoder holds the text of a
\* name element of the item.
C23_OnlyValueTexts ==
  (dphase \in {"done", "read"}) =>
    \A k \in 1..Len(Schema) : \A i \in 1..Len(device_list) :
      (device_list[i].tag = "n" /\ device_list[i].text # NoText) =>
        /\ (Schema[k].desc \in DOMAIN parameter) =>
             parameter[Schema[k].desc] # device_list[i].text
        /\ (Schema[k].desc \in DOMAIN decoded.data) =>
             decoded.data[Schema[k].desc] # PyStr(device_list[i].text)

\* --------------------------------------------------- claims on the client
GetAllEnded == op = "get_all_devices_data" /\ apc = "idle"

\* The indices 0..n-1 in increasing order.
IndexList(n) == [i \in 1..n |-> i - 1]

\* C1: in get_all_devices_data, once the count n is known, whatever subset
\* of the get_device_data calls fails (a timeout included), the call has
\* attempted every index 0..n-1, does not raise, and returns under its index
\* the data of every call that did not fail and produced data.
C1_DeviceFailuresTolerated ==
  (GetAllEnded /\ num_devices >= 0) =>
    /\ result.kind = "return"
    /\ attempted = IndexList(num_devices)
    /\ Len(outcomes) = num_devices
    /\ \A i \in 1..Len(outcomes) :
         (outcomes[i].kind = "return" /\ outcomes[i].data # EmptyDict) =>
           /\ (i - 1) \in DOMAIN result.devices
           /\ result.devices[i - 1] = outcomes[i].data

\* C1 witness: of three devices the second one timed out, and the call
\* returned the data of the first and the third.
C1_Witness ==
  /\ GetAllEnded
  /\ num_devices = 3
  /\ Len(outcomes) = 3
  /\ outcomes[2].kind = "raise" /\ outcomes[2].exc = "TimeoutException"
  /\ result.kind = "return"
  /\ DOMAIN result.devices = {0, 2}
  /\ result.devices[2] = outcomes[3].data

\* C2 (as claimed): the snapshot get_all_devices_data returns has a key for
\* every index 0..count-1, a failed index included.
C2_EveryIndexPresent ==
  (GetAllEnded /\ result.kind = "return") =>
    DOMAIN result.devices = 0..(num_devices - 1)

\* The count query met a 200 response, parsable, whose item list holds no
\* item or whose item holds no value node.
CountAnswerEmpty ==
  /\ xchg.resp.kind = "http"
  /\ xchg.resp.status = HttpOk
  /\ xchg.resp.body.xml
  /\ xchg.resp.body.tree.item_list
  /\ \/ xchg.resp.body.tree.items = << >>
     \/ FindFirst(Head(xchg.resp.body.tree.items), "v") = 0

\* C6 (as claimed): get_number_of_devices, of the client and of the
\* reference reader alike, answers such a response with an error raised to
\* the caller.
C6_EmptyCountRaises ==
  (op \in {"get_number_of_devices", "raw_get_number_of_devices"}
     /\ CountAnswerEmpty) =>
    result.kind = "raise"

WriteOps ==
  {"set_temperature", "set_target_temperature", "set_operation_mode",
   "set_mode"}

TemperatureWrites == {"set_temperature", "set_target_temperature"}

\* C7: every write of RothHeatingAPI returns a boolean and never raises:
\* True exactly when the controller answered with status 200, False on every
\* other status and on every transport failure.
C7_WritesReturnBoolean ==
  (op \in WriteOps) =>
    /\ result.kind = "return"
    /\ result.value.t = "bool"
    /\ (result.value.n = 1) <=>
         (xchg.resp.kind = "http" /\ xchg.resp.status = 200)

\* C7 witness: a mode write whose request timed out has returned False
\* to its caller instead of raising.
C7_Witness ==
  /\ op = "set_operation_mode"
  /\ xchg.resp.kind = "TimeoutException"
  /\ result.kind = "return"
  /\ result.value = PyBool(FALSE)

\* C8 (as claimed): the value a temperature write transmits is the integer
\* T * 100.
C8_WriteScaled ==
  (op \in TemperatureWrites) =>
    /\ sent.VAL.t = "int"
    /\ sent.VAL.n = args.hundredths

\* C9 (as claimed): for every temperature T in hundredths of a degree, the
\* raw integer the write-side scaling produces decodes back to exactly T.
C9_RoundTrip ==
  (op \in TemperatureWrites) =>
    ReadScale(WriteScale(Temperature(args.hundredths)))
      = Temperature(args.hundredths)

ReadOps == {"get_number_of_devices", "get_system_status", "get_device_data"}

\* C10: every read of RothHeatingAPI raises to its caller, returning no
\* value, when the HTTP status is not 200 or the body is not parsable XML;
\* the body of a non-200 response is never parsed.
C10_ReadsRaise ==
  (op \in ReadOps /\ xchg.resp.kind = "http") =>
    /\ (xchg.resp.status # 200 \/ ~xchg.resp.body.xml) =>
         /\ result.kind = "raise"
         /\ result.value = PyNone
         /\ result.data = EmptyDict
    /\ (xchg.resp.status # 200) => ~xchg.parsed

\* C10 witness: a device read answered 500 with a well-formed body raised,
\* the body left unparsed.
C10_Witness ==
  /\ op = "get_device_data"
  /\ xchg.resp.kind = "http"
  /\ xchg.resp.status = 500
  /\ xchg.resp.body.xml
  /\ result.kind = "raise"
  /\ ~xchg.parsed

\* The last exchange met a 200 response whose body is parsable XML.
AnsweredParsed ==
  /\ xchg.resp.kind = "http"
  /\ xchg.resp.status = 200
  /\ xchg.resp.body.xml

\* The parsed response lacks item_list, or its item_list holds no item.
TopLevelMissing ==
  \/ ~xchg.resp.body.tree.item_list
  \/ xchg.resp.body.tree.items = << >>

\* C11 (as claimed): get_device_data on a parsed response without item_list
\* or without an item in it ends with an error, not with a returned mapping.
C11_MissingNodesRaise ==
  (op = "get_device_data" /\ AnsweredParsed /\ TopLevelMissing) =>
    result.kind = "raise"

\* The operations that post to the controller.
ExchangeOps ==
  {"get_number_of_devices", "raw_get_number_of_devices", "get_system_status",
   "get_device_data", "get_all_devices_data", "set_temperature",
   "set_target_temperature", "set_operation_mode", "set_mode"}

\* C15: after every exchange of a read or a write, however it ended (200,
\* another status, unparsable body, transport failure), the client created
\* for it has been closed: no client is open between operations.
C15_ClientClosedAfterExchange ==
  (op \in ExchangeOps) => open_clients = 0

\* C15 witness: a status read met an unparsable 200 body and raised, a
\* client having been created for it and none being open.
C15_Witness ==
  /\ op = "get_system_status"
  /\ requests = <<StatusRequest>>
  /\ xchg.resp.kind = "http" /\ xchg.resp.status = 200
  /\ ~xchg.resp.body.xml
  /\ result.kind = "raise" /\ result.exc = "ParseError"
  /\ open_clients = 0

\* The item a device query for index d is expected to post.
ExpectedDeviceRequest(d) ==
  [k \in 1..SchemaLen |-> <<"G", DigitText(d), ".", XmlElementList[k].name>>]

\* The count query, the only request so far, was not answered with a count:
\* a transport failure, a status other than 200, an unparsable body, or a
\* body without the value node or without digits in it.
CountQueryFailed ==
  /\ Len(requests) = 1
  /\ ~(/\ AnsweredParsed
       /\ ~TopLevelMissing
       /\ LET item == Head(xchg.resp.body.tree.items)
          IN  /\ FindFirst(item, "v") # 0
              /\ IsIntText(item[FindFirst(item, "v")].text))

\* C16: get_all_devices_data posts the count query first and then one
\* device query per index, in increasing order from 0; when it has ended
\* with a count, every index 0..count-1 was queried exactly once; after a
\* failed count query no device is queried and the error is raised.
C16_CountThenDevicesInOrder ==
  (op = "get_all_devices_data") =>
    /\ (apc = "count") => requests = << >>
    /\ (apc # "count") =>
         /\ Len(requests) >= 1
         /\ requests[1] = << <<"totalNumberOfDevices">> >>
         /\ \A i \in 2..Len(requests) :
              requests[i] = ExpectedDeviceRequest(i - 2)
         /\ Len(attempted) = Len(requests) - 1
         /\ \A i \in 1..Len(attempted) : attempted[i] = i - 1
    /\ (apc = "idle" /\ num_devices >= 0) =>
         Len(requests) = 1 + num_devices
    /\ (apc # "count" /\ CountQueryFailed) =>
         /\ apc = "idle"
         /\ result.kind = "raise"
         /\ attempted = << >>

\* C16 witness: the count was 3, and the count query and the queries for
\* the devices 0, 1 and 2 were posted in that order.
C16_Witness ==
  /\ GetAllEnded
  /\ num_devices = 3
  /\ Len(requests) = 4
  /\ requests[1] = << <<"totalNumberOfDevices">> >>
  /\ requests[2][1] = <<"G", "0", ".", "name">>
  /\ requests[4][1] = <<"G", "2", ".", "name">>
  /\ attempted = <<0, 1, 2>>
  /\ result.kind = "return"

\* The parsed response holds an item of name/value pairs.
ItemAnswered ==
  /\ AnsweredParsed
  /\ xchg.resp.body.tree.item_list
  /\ xchg.resp.body.tree.items # << >>

\* C20 (as claimed): get_device_data on an item in which a value is no
\* number where one is expected does not fail, and still returns the
\* parameters whose values are usable (here the name).
C20_BadValueOnlyUnset ==
  (op = "get_device_data" /\ ItemAnswered) =>
    /\ result.kind = "return"
    /\ LET item == Head(xchg.resp.body.tree.items)
       IN  (item[2].text \notin {NoText, <<"NA">>}) =>
             /\ "Name" \in DOMAIN result.data
             /\ result.data["Name"] = PyStr(item[2].text)

\* The indices whose get_device_data call returned.
ReturnedIndices ==
  {i - 1 : i \in {j \in 1..Len(outcomes) : outcomes[j].kind = "return"}}

\* C24 (as claimed): the keys of the mapping get_all_devices_data returns
\* are exactly the indices whose get_device_data call returned without an
\* error, each mapped to the data that call returned.
C24_KeysAreReturnedIndices ==
  (GetAllEnded /\ result.kind = "return") =>
    /\ DOMAIN result.devices = ReturnedIndices
    /\ \A k \in DOMAIN result.devices :
         /\ k + 1 \in 1..Len(outcomes)
         /\ result.devices[k] = outcomes[k + 1].data

\* ------------------------------------------------- claims on the poll
\* The device reads of the cycle that timed out.
TimedOutDevices ==
  {i \in 1..Len(outcomes) :
     outcomes[i].kind = "raise" /\ outcomes[i].exc = "TimeoutException"}

\* C14 (as claimed): in a poll cycle whose count query was answered,
\* whatever number of device reads time out, every device 0..count-1 is
\* read and the poll does not fail in get_all_devices_data: it goes on to
\* the status query instead of being cancelled.
C14_TimeoutsDoNotCancelPoll ==
  (ppc = "ended" /\ num_devices >= 0) =>
    /\ attempted = IndexList(num_devices)
    /\ Len(outcomes) = num_devices
    /\ poll.failed_at # "get_device_data"


\* The position of the status query among the queries of the cycle, 0 if it
\* was not posted.
StatusQueryAt ==
  IF \A i \in 1..Len(requests) : requests[i] # StatusRequest THEN 0
  ELSE CHOOSE i \in 1..Len(requests) : requests[i] = StatusRequest

\* C27: a poll queries the devices first and the status second; it returns
\* data only if get_all_devices_data and get_system_status both completed,
\* otherwise it raises UpdateFailed and returns no partial data; and a
\* failure of a device read inside get_all_devices_data never makes the
\* poll fail.
C27_PollOutcome ==
  ppc = "ended" =>
    /\ requests # << >> /\ Head(requests) = CountRequest
    /\ StatusQueryAt \in {0, Len(requests)}
    /\ StatusQueryAt # 0 =>
         /\ result.kind = "return" => Len(requests) = num_devices + 2
         /\ Len(outcomes) = num_devices
    /\ poll.kind \in {"return", "UpdateFailed"}
    /\ poll.kind = "return" =>
         /\ StatusQueryAt # 0
         /\ result.kind = "return"
         /\ poll.devices = result.devices
         /\ GetSystemStatus(xchg.resp).kind = "return"
         /\ poll.system_status = GetSystemStatus(xchg.resp).value
    /\ poll.kind = "UpdateFailed" =>
         /\ result.kind = "raise"
         /\ poll.devices = EmptyDict
         /\ poll.system_status = PyNone
    /\ poll.failed_at # "get_device_data"

\* ------------------------------------------------- claims on the reader
\* The last update of the reader returned `b`.
UpdateReturned(b) == rphase \in {"updated", "read"} /\ updated = PyBool(b)

\* The response the last exchange met was parsed and has an item_list.
ResponseDecoded ==
  /\ ~RawRequestAndReceiveXml(xchg.resp).raised
  /\ RawRequestAndReceiveXml(xchg.resp).tree.item_list

\* C25: update_device_data returns True only if the response of this call
\* was decoded; for a response that cannot be decoded, such as one without
\* item_list, it returns False.
C25_TrueOnlyIfDecoded == UpdateReturned(TRUE) => ResponseDecoded

\* The reader holds parameters that the controller sent for device `d`.
HeldFor(d) ==
  "Unique ID" \in DOMAIN parameter /\ parameter["Unique ID"] = <<DigitText(d)>>

\* C26: the accessors of a reader expose what the response to the most
\* recent update_device_data holds; after an update that returned False
\* they expose no value that an earlier update for another device left.
C26_NoLeftovers ==
  /\ (rphase = "read" /\ updated = PyBool(TRUE)) =>
       exposed = Accessors(ParseDeviceResponse(
                   RawRequestAndReceiveXml(xchg.resp).tree, Schema))
  /\ (rphase = "read" /\ updated = PyBool(FALSE)) =>
       \/ exposed = Accessors(EmptyDict)
       \/ HeldFor(update_id)

\* C30: decode_magic_numbers attaches operation_mode_decoded to every entry
\* whose parsed operation_mode is an integer, the description of the code
\* for 0, 1, 2 and 3 and "Unknown Mode" for any other, and returns an entry
\* without parsed_data as it is.
C30_EveryModeDecoded ==
  rphase = "decoded" =>
    /\ (entry.kind = "data" /\ entry.parsed_data.operation_mode.t = "int") =>
         LET code == DigitText(entry.parsed_data.operation_mode.n)
         IN  /\ decoded_entry.operation_mode_decoded = OperationModeTable(code)
             /\ entry.parsed_data.operation_mode.n \in 0..3 =>
                  decoded_entry.operation_mode_decoded[1]
                    \in {"AUTO/NORMAL", "MANUAL/COMFORT", "ECO/SETBACK",
                         "OFF/FROST_PROTECTION"}
    /\ entry.kind # "data" => decoded_entry = Unchanged(entry)


\* ------------------------------------- claims on the entity and the flow
ClimateHandlers == {"async_set_temperature", "async_set_hvac_mode"}
FlowSteps == {"async_step_user", "async_step_import"}

\* The write of the last handler was answered with HTTP 200.
WriteAnswered200 == xchg.resp.kind = "http" /\ xchg.resp.status = 200

\* The last handler was called without what it needs for a write: no
\* temperature, or an HVAC mode outside AUTO, HEAT, ECO and OFF.
NothingToWrite ==
  \/ handler.name = "async_set_temperature" /\ handler.temperature = PyNone
  \/ /\ handler.name = "async_set_hvac_mode"
     /\ handler.hvac_mode \notin {"auto", "heat", "eco", "off"}

\* C28: async_set_temperature and async_set_hvac_mode request a refresh
\* exactly when their write returned success, never after a failed write;
\* they issue no write when the temperature is absent or the HVAC mode has
\* no code, and at most one write otherwise.
C28_RefreshOnlyAfterSuccess ==
  (handler.name \in ClimateHandlers) =>
    /\ writes \in {0, 1}
    /\ refreshes \in {0, 1}
    /\ NothingToWrite <=> writes = 0
    /\ writes = 0 => sent = NoPayload /\ refreshes = 0
    /\ writes = 1 =>
         /\ result.kind = "return"
         /\ refreshes = 1 <=> result.value = PyBool(TRUE)
         /\ refreshes = 1 <=> WriteAnswered200

\* C28 witness: the write of mode ECO was answered with HTTP 500, returned
\* False, and no refresh was requested.
C28_Witness ==
  /\ handler.name = "async_set_hvac_mode"
  /\ handler.hvac_mode = "eco"
  /\ writes = 1
  /\ xchg.resp.kind = "http" /\ xchg.resp.status = 500
  /\ result.value = PyBool(FALSE)
  /\ refreshes = 0

\* The status read of the last flow step returned.
StatusReadSucceeded ==
  /\ xchg.resp.kind = "http" /\ xchg.resp.status = 200
  /\ xchg.resp.body.xml
  /\ ~ValueNodeText(xchg.resp.body.tree).raised

\* C29: a flow step creates a config entry only when get_system_status
\* succeeded against the host entered in that step; when the status read
\* raises, the form is shown again with cannot_connect and no entry is
\* created; without input the form is shown with no error.
C29_EntryOnlyAfterStatus ==
  (handler.name \in FlowSteps) =>
    /\ flow.type = "create_entry" =>
         /\ handler.host # ""
         /\ flow.host = handler.host
         /\ StatusReadSucceeded
    /\ (handler.host # "" /\ ~StatusReadSucceeded) =>
         flow = FlowResult("form", "cannot_connect", "")
    /\ handler.host = "" => flow = FlowResult("form", "", "")
    /\ \A h \in entries : h \in Hosts
    /\ flow.type = "create_entry" => flow.host \in entries

\* C29 witness: the status read of host "a" timed out, the form came back
\* with cannot_connect and no entry for "a" exists.
C29_Witness ==
  /\ handler.name = "async_step_user"
  /\ handler.host = "a"
  /\ xchg.resp.kind = "TimeoutException"
  /\ flow = FlowResult("form", "cannot_connect", "")
  /\ "a" \notin entries

====
